---- MODULE Spec2Model ----
(***************************************************************************)
(* ModelPilot JavaScript client: request validation and payload assembly   *)
(* (chat.js), the retrying transport (index.js), the error taxonomy        *)
(* (errors.js) and the server-sent-event stream decoder (chat.js,          *)
(* utils.js).                                                              *)
(*                                                                         *)
(* JavaScript values are tagged records [t, v]; objects are sets of        *)
(* <<key, value>> pairs; numbers are kept in tenths (0.7 is 7, 2 is 20)    *)
(* so that the range checks on temperature and top_p stay integer checks.  *)
(***************************************************************************)
EXTENDS Integers, Sequences, FiniteSets, TLC

VARIABLES
  client,   \* the ModelPilot instance built by the constructor (or its failure)
  calls,    \* per call id: the state of one create/request/getModels/... call
  script,   \* what the byte source of the ChatCompletionStream sends in all
  source,   \* the byte source: the bytes it has yet to deliver, what it delivered
  _buffer,  \* ChatCompletionStream._buffer
  iters     \* per consumer: the state of its run of the async generator

decoderVars == <<script, source, _buffer, iters>>
vars == <<client, calls, script, source, _buffer, iters>>

Tenths(n) == n * 10

-----------------------------------------------------------------------------
(* JavaScript values *)

Undef == [t |-> "undefined", v |-> 0]
Null == [t |-> "null", v |-> 0]
Num(n) == [t |-> "number", v |-> n]
Str(s) == [t |-> "string", v |-> s]
Bool(b) == [t |-> "boolean", v |-> b]
Arr(a) == [t |-> "array", v |-> a]
Obj(ps) == [t |-> "object", v |-> ps]

\* ToBoolean: undefined, null, false, 0 and "" are falsy, everything else truthy
Truthy(x) ==
  CASE x.t \in {"undefined", "null"} -> FALSE
    [] x.t = "boolean" -> x.v
    [] x.t = "number" -> x.v # 0
    [] x.t = "string" -> Len(x.v) > 0
    [] OTHER -> TRUE

\* x || d
OrElse(x, d) == IF Truthy(x) THEN x ELSE d

\* typeof: arrays and null are "object"
TypeOf(x) ==
  CASE x.t \in {"null", "array"} -> "object"
    [] OTHER -> x.t

IsArray(x) == x.t = "array"

HasKey(o, k) == o.t = "object" /\ \E p \in o.v : p[1] = k

\* o.k : the own property, undefined when absent (or when o holds no properties)
Get(o, k) == IF HasKey(o, k) THEN (CHOOSE p \in o.v : p[1] = k)[2] ELSE Undef

\* a.length === 0 ... a[0] on an array or anything else
First(a) == IF IsArray(a) /\ Len(a.v) > 0 THEN a.v[1] ELSE Undef

-----------------------------------------------------------------------------
(* Error taxonomy (errors.js) *)

NoError == [kind |-> "none", msg |-> "", param |-> "", status |-> -1, idx |-> -1]

\* new Error(message): the validators of utils.js throw these
PlainError(message, index) ==
  [kind |-> "Error", msg |-> message, param |-> "", status |-> -1, idx |-> index]

TypeErrorOf(message) ==
  [kind |-> "TypeError", msg |-> message, param |-> "", status |-> -1, idx |-> -1]

ModelPilotError(message) ==
  [kind |-> "ModelPilotError", msg |-> message, param |-> "", status |-> -1, idx |-> -1]

APIError(message, status) ==
  [kind |-> "APIError", msg |-> message, param |-> "", status |-> status, idx |-> -1]

AuthenticationError(message) ==
  [kind |-> "AuthenticationError", msg |-> message, param |-> "", status |-> 401, idx |-> -1]

RateLimitError(message) ==
  [kind |-> "RateLimitError", msg |-> message, param |-> "", status |-> 429, idx |-> -1]

InvalidRequestError(message, param) ==
  [kind |-> "InvalidRequestError", msg |-> message, param |-> param, status |-> 400, idx |-> -1]

\* e instanceof cls, along the extends chains of errors.js
InstanceOf(e, cls) ==
  CASE cls = "Error" -> e.kind # "none"
    [] cls = "ModelPilotError" ->
         e.kind \in {"ModelPilotError", "APIError", "AuthenticationError",
                     "RateLimitError", "InvalidRequestError"}
    [] cls = "APIError" ->
         e.kind \in {"APIError", "AuthenticationError", "RateLimitError",
                     "InvalidRequestError"}
    [] OTHER -> e.kind = cls

IsError(e) == e.kind # "none"

-----------------------------------------------------------------------------
(* Validators (utils.js) *)

Roles == {"system", "user", "assistant", "function", "tool"}

\* the first index of 1..n whose check fails, 0 when none does
FirstBad(n, Check(_)) ==
  LET bad == {i \in 1..n : IsError(Check(i))}
  IN IF bad = {} THEN 0 ELSE CHOOSE i \in bad : \A j \in bad : i <= j

\* the body of the for loop of validateMessages, for messages[index]
MessageError(index, message) ==
  IF ~Truthy(message) \/ TypeOf(message) # "object"
  THEN PlainError("messages[i] must be an object", index)
  ELSE IF ~Truthy(Get(message, "role"))
  THEN PlainError("messages[i].role is required", index)
  ELSE IF ~(Get(message, "role").t = "string" /\ Get(message, "role").v \in Roles)
  THEN PlainError("messages[i].role must be one of: system, user, assistant, function, tool", index)
  ELSE IF /\ ~Truthy(Get(message, "content"))
          /\ ~Truthy(Get(message, "function_call"))
          /\ ~Truthy(Get(message, "tool_calls"))
  THEN PlainError("messages[i].content is required when role is not function or tool", index)
  ELSE NoError

validateMessages(messages) ==
  IF ~IsArray(messages) THEN PlainError("messages must be an array", -1)
  ELSE IF Len(messages.v) = 0 THEN PlainError("messages array cannot be empty", -1)
  ELSE LET Check(i) == MessageError(i - 1, messages.v[i])
           b == FirstBad(Len(messages.v), Check)
       IN IF b = 0 THEN NoError ELSE Check(b)

\* the body of the for loop of validateFunctions, for functions[index]
FunctionError(index, func) ==
  IF ~Truthy(func) \/ TypeOf(func) # "object"
  THEN PlainError("functions[i] must be an object", index)
  ELSE IF ~Truthy(Get(func, "name")) \/ TypeOf(Get(func, "name")) # "string"
  THEN PlainError("functions[i].name is required and must be a string", index)
  ELSE IF Truthy(Get(func, "description")) /\ TypeOf(Get(func, "description")) # "string"
  THEN PlainError("functions[i].description must be a string", index)
  ELSE IF Truthy(Get(func, "parameters")) /\ TypeOf(Get(func, "parameters")) # "object"
  THEN PlainError("functions[i].parameters must be an object", index)
  ELSE NoError

validateFunctions(functions) ==
  IF ~IsArray(functions) THEN PlainError("functions must be an array", -1)
  ELSE LET Check(i) == FunctionError(i - 1, functions.v[i])
           b == FirstBad(Len(functions.v), Check)
       IN IF b = 0 THEN NoError ELSE Check(b)

\* the body of the for loop of validateTools, for tools[index]
ToolError(index, tool) ==
  IF ~Truthy(tool) \/ TypeOf(tool) # "object"
  THEN PlainError("tools[i] must be an object", index)
  ELSE IF ~Truthy(Get(tool, "type"))
  THEN PlainError("tools[i].type is required", index)
  ELSE IF Get(tool, "type") = Str("function")
  THEN IF ~Truthy(Get(tool, "function"))
       THEN PlainError("tools[i].function is required when type is 'function'", index)
       ELSE validateFunctions(Arr(<<Get(tool, "function")>>))
  ELSE NoError

validateTools(tools) ==
  IF ~IsArray(tools) THEN PlainError("tools must be an array", -1)
  ELSE LET Check(i) == ToolError(i - 1, tools.v[i])
           b == FirstBad(Len(tools.v), Check)
       IN IF b = 0 THEN NoError ELSE Check(b)

\* the checks of ChatCompletions.create, in order; the first failure is thrown
BadMaxTokens(params) ==
  LET x == Get(params, "max_tokens")
  IN Truthy(x) /\ (TypeOf(x) # "number" \/ x.v <= 0)

BadTemperature(params) ==
  LET x == Get(params, "temperature")
  IN Truthy(x) /\ (TypeOf(x) # "number" \/ x.v < 0 \/ x.v > 20)

BadTopP(params) ==
  LET x == Get(params, "top_p")
  IN Truthy(x) /\ (TypeOf(x) # "number" \/ x.v <= 0 \/ x.v > 10)

ValidateCreate(params) ==
  IF ~Truthy(Get(params, "messages"))
  THEN InvalidRequestError("messages is required", "messages")
  ELSE IF IsError(validateMessages(Get(params, "messages")))
  THEN validateMessages(Get(params, "messages"))
  ELSE IF Truthy(Get(params, "functions")) /\ IsError(validateFunctions(Get(params, "functions")))
  THEN validateFunctions(Get(params, "functions"))
  ELSE IF Truthy(Get(params, "tools")) /\ IsError(validateTools(Get(params, "tools")))
  THEN validateTools(Get(params, "tools"))
  ELSE IF BadMaxTokens(params)
  THEN InvalidRequestError("max_tokens must be a positive number", "max_tokens")
  ELSE IF BadTemperature(params)
  THEN InvalidRequestError("temperature must be between 0 and 2", "temperature")
  ELSE IF BadTopP(params)
  THEN InvalidRequestError("top_p must be between 0 and 1", "top_p")
  ELSE NoError

-----------------------------------------------------------------------------
(* Payload assembly (chat.js) *)

PassThroughKeys ==
  {"max_tokens", "temperature", "top_p", "frequency_penalty", "presence_penalty",
   "stop", "functions", "function_call", "tools", "tool_choice", "response_format",
   "user", "stream"}

\* model is copied when truthy, every other optional field when !== undefined
buildOptionalParams(params) ==
  {<<"model", Get(params, "model")>> : k \in {x \in {"model"} : Truthy(Get(params, "model"))}}
  \cup {<<k, Get(params, k)>> : k \in {x \in PassThroughKeys : Get(params, x) # Undef}}

\* a variant of RequestPayload in which a routerId of the params comes last and
\* replaces the client's
RequestPayloadParamsLast(cl, params) ==
  Obj({<<"messages", Get(params, "messages")>>,
       <<"routerId", OrElse(Get(params, "routerId"), cl.routerId)>>}
      \cup buildOptionalParams(params))

\* { messages, routerId: this.client.routerId, ...optional }
RequestPayload(cl, params) ==
  Obj({<<"messages", Get(params, "messages")>>, <<"routerId", cl.routerId>>}
      \cup buildOptionalParams(params))

-----------------------------------------------------------------------------
(* Client construction (utils.js validateConfig, index.js constructor) *)

DefaultMaxRetries == 3
DefaultTimeout == 30000
RequiredPrefix == <<"m", "p", "_">>

\* s.startsWith(prefix), on strings kept as character sequences
StartsWith(s, prefix) ==
  Len(s) >= Len(prefix) /\ SubSeq(s, 1, Len(prefix)) = prefix

validateConfig(config) ==
  IF ~Truthy(Get(config, "apiKey"))
  THEN PlainError("ModelPilot API key is required. Get one at https://modelpilot.co", -1)
  ELSE IF TypeOf(Get(config, "apiKey")) # "string"
  THEN PlainError("API key must be a string", -1)
  ELSE IF Truthy(Get(config, "baseURL")) /\ TypeOf(Get(config, "baseURL")) # "string"
  THEN PlainError("baseURL must be a string", -1)
  ELSE IF /\ Truthy(Get(config, "timeout"))
          /\ (TypeOf(Get(config, "timeout")) # "number" \/ Get(config, "timeout").v <= 0)
  THEN PlainError("timeout must be a positive number", -1)
  ELSE IF /\ Truthy(Get(config, "maxRetries"))
          /\ (TypeOf(Get(config, "maxRetries")) # "number" \/ Get(config, "maxRetries").v < 0)
  THEN PlainError("maxRetries must be a non-negative number", -1)
  ELSE NoError

\* {...a, ...b} : the properties of b replace those of a
Spread(a, b) ==
  Obj({p \in a.v : ~HasKey(b, p[1])} \cup (IF b.t = "object" THEN b.v ELSE {}))

Bearer(apiKey) == Str(<<"B", "e", "a", "r", "e", "r", " ">> \o apiKey.v)

\* buildHeaders(apiKey, additionalHeaders), for a key with the prefix
buildHeaders(apiKey, additionalHeaders) ==
  Spread(Obj({<<"Authorization", Bearer(apiKey)>>,
              <<"User-Agent", Str("modelpilot-js/1.0.0")>>,
              <<"X-Client-Library", Str("modelpilot-js")>>,
              <<"Content-Type", Str("application/json")>>}),
         additionalHeaders)

\* the throw of buildHeaders
buildHeadersError(apiKey) ==
  IF ~StartsWith(apiKey.v, RequiredPrefix)
  THEN PlainError("Invalid ModelPilot API key format. API key must start with mp_", -1)
  ELSE NoError

\* the headers of one attempt: those of the axios instance, then those of the
\* request, then the request interceptor
SentHeaders(self, headers) ==
  buildHeaders(self.apiKey,
               Spread(Spread(Obj({<<"Content-Type", Str("application/json")>>}),
                             self.defaultHeaders),
                      headers))

\* a variant of NewClient without the test of the key's prefix
NewClientAnyPrefix(config) ==
  LET fields == [apiKey |-> Get(config, "apiKey"),
                 baseURL |-> OrElse(Get(config, "baseURL"),
                                    Str("https://your-firebase-project.cloudfunctions.net")),
                 routerId |-> OrElse(Get(config, "routerId"), Str("default")),
                 timeout |-> OrElse(Get(config, "timeout"), Num(Tenths(DefaultTimeout))),
                 defaultHeaders |-> OrElse(Get(config, "defaultHeaders"), Obj({})),
                 maxRetries |-> OrElse(Get(config, "maxRetries"),
                                       Num(Tenths(DefaultMaxRetries))),
                 config |-> config]
      e == validateConfig(config)
  IN [ok |-> ~IsError(e), error |-> e, self |-> fields]

\* new ModelPilot(config): the instance, or the error the constructor throws
NewClient(config) ==
  LET fields == [apiKey |-> Get(config, "apiKey"),
                 baseURL |-> OrElse(Get(config, "baseURL"),
                                    Str("https://your-firebase-project.cloudfunctions.net")),
                 routerId |-> OrElse(Get(config, "routerId"), Str("default")),
                 timeout |-> OrElse(Get(config, "timeout"), Num(Tenths(DefaultTimeout))),
                 defaultHeaders |-> OrElse(Get(config, "defaultHeaders"), Obj({})),
                 maxRetries |-> OrElse(Get(config, "maxRetries"),
                                       Num(Tenths(DefaultMaxRetries))),
                 config |-> config]
      e == IF IsError(validateConfig(config)) THEN validateConfig(config)
           ELSE IF ~StartsWith(fields.apiKey.v, RequiredPrefix)
           THEN PlainError("Invalid ModelPilot API key format. API key must start with mp_", -1)
           ELSE NoError
  IN [ok |-> ~IsError(e), error |-> e, self |-> fields]

-----------------------------------------------------------------------------
(* Transport (index.js): one HTTP attempt, its classification, the retry loop *)

\* what one attempt through the axios instance comes back with
HttpResponse(status, data) == [k |-> "response", status |-> status, data |-> data]
NoResponse == [k |-> "noResponse", status |-> 0, data |-> Undef]
SetupFailure == [k |-> "setup", status |-> 0, data |-> Undef]

\* axios resolves on 2xx (validateStatus) and rejects on everything else
Resolves(r) == r.k = "response" /\ r.status >= 200 /\ r.status < 300

\* data.message || fallback ; a TypeError when data is null or undefined
ErrorMessage(data, fallback) ==
  IF Truthy(Get(data, "message")) THEN Get(data, "message").v ELSE fallback

\* response?.error?.param of the APIError constructor
ErrorParam(data) ==
  LET p == Get(Get(data, "error"), "param")
  IN IF p.t = "string" THEN p.v ELSE ""

\* _handleError, if(error.response): the switch over the status
ResponseError(r) ==
  IF r.data.t \in {"undefined", "null"}
  THEN TypeErrorOf("Cannot read properties of null (reading 'message')")
  ELSE CASE r.status = 401 ->
              AuthenticationError(ErrorMessage(r.data, "Invalid API key"))
         [] r.status = 429 ->
              RateLimitError(ErrorMessage(r.data, "Rate limit exceeded"))
         [] r.status \in {400, 422} ->
              [APIError(ErrorMessage(r.data, "Bad request"), r.status)
                 EXCEPT !.param = ErrorParam(r.data)]
         [] OTHER ->
              [APIError(ErrorMessage(r.data, "API error"), r.status)
                 EXCEPT !.param = ErrorParam(r.data)]

\* a variant of handleError that throws the error of a request that was never
\* sent on as it came
handleErrorSetupRethrown(r) ==
  IF r.k = "response" THEN ResponseError(r)
  ELSE IF r.k = "noResponse"
  THEN ModelPilotError("Network error: No response received")
  ELSE PlainError("Request error", -1)

\* _handleError: the error the response interceptor throws for a rejected attempt
handleError(r) ==
  IF r.k = "response" THEN ResponseError(r)
  ELSE IF r.k = "noResponse"
  THEN ModelPilotError("Network error: No response received")
  ELSE ModelPilotError("Request error")

\* a variant of NotRetried without the status test: no API error is retried
NotRetriedWhateverStatus(e) ==
  InstanceOf(e, "AuthenticationError") \/ InstanceOf(e, "APIError")

\* the catch block's first test: errors that are thrown on without a retry
NotRetried(e) ==
  InstanceOf(e, "AuthenticationError") \/ (InstanceOf(e, "APIError") /\ e.status < 500)

BaseDelayMs == 1000
MaxDelayMs == 10000

RECURSIVE Pow2(_)
Pow2(n) == IF n = 0 THEN 1 ELSE 2 * Pow2(n - 1)

Min(a, b) == IF a <= b THEN a ELSE b

\* a variant of BackoffDelay without the cap
BackoffDelayUncapped(attempt) == BaseDelayMs * Pow2(attempt)

\* Math.min(1000 * Math.pow(2, attempt), 10000)
BackoffDelay(attempt) == Min(BaseDelayMs * Pow2(attempt), MaxDelayMs)

\* the loop test of request: attempt <= this.maxRetries
LoopContinues(cl, attempt) == Tenths(attempt) <= cl.self.maxRetries.v

\* attempt === this.maxRetries
LastAttempt(cl, attempt) == Tenths(attempt) = cl.self.maxRetries.v

-----------------------------------------------------------------------------
(* Calls *)

CallIds == {1, 2}

NoReq ==
  [url |-> <<>>, method |-> "", data |-> Undef, responseType |-> "", accept |-> "",
   headers |-> Undef]

\* a variant of StreamingHeaders without the Accept header
StreamingHeadersNoAccept == Obj({<<"Cache-Control", Str("no-cache")>>})

\* the headers _createStreamingCompletion passes
StreamingHeaders ==
  Obj({<<"Accept", Str("text/event-stream")>>, <<"Cache-Control", Str("no-cache")>>})

IdleCall ==
  [pc |-> "idle", op |-> "none", params |-> Undef, via |-> "none", req |-> NoReq,
   attempt |-> 0, httpCalls |-> 0, hist |-> <<>>, waits |-> <<>>,
   lastError |-> NoError, error |-> NoError, result |-> Undef]

\* client.request(endpoint, options), entered: the loop issues attempt 0
EnterRequest(cl, call, op, params, req) ==
  IF LoopContinues(cl, 0)
  THEN [call EXCEPT !.pc = "inflight", !.op = op, !.params = params, !.via = "request",
                    !.req = req, !.httpCalls = 1]
  ELSE [call EXCEPT !.pc = "raised", !.op = op, !.params = params, !.via = "request",
                    !.req = req]

RouterEndpoint(cl) == <<"/router/", cl.self.routerId>>

\* ChatCompletions.create(params)
CreateCall(cl, call, params) ==
  LET e == ValidateCreate(params)
      payload == RequestPayload(cl.self, params)
  IN IF IsError(e)
     THEN [call EXCEPT !.pc = "raised", !.op = "create", !.params = params, !.error = e]
     ELSE IF Truthy(Get(params, "stream"))
     THEN [call EXCEPT !.pc = "inflight", !.op = "create", !.params = params,
                       !.via = "httpClient", !.httpCalls = 1,
                       !.req = [url |-> RouterEndpoint(cl), method |-> "POST",
                                data |-> payload, responseType |-> "stream",
                                accept |-> "text/event-stream",
                                headers |-> SentHeaders(cl.self, StreamingHeaders)]]
     ELSE EnterRequest(cl, call, "create", params,
                       [url |-> RouterEndpoint(cl), method |-> "POST", data |-> payload,
                        responseType |-> "", accept |-> "",
                        headers |-> SentHeaders(cl.self, Undef)])

Create(c, inputs) ==
  /\ client.ok
  /\ calls[c].pc = "idle"
  /\ \E params \in inputs :
       calls' = [calls EXCEPT ![c] = CreateCall(client, calls[c], params)]
  /\ UNCHANGED <<client, decoderVars>>

\* client.request(endpoint, {method, data, headers}) called directly
Request(c, method, data, headers) ==
  /\ client.ok
  /\ calls[c].pc = "idle"
  /\ calls' = [calls EXCEPT ![c] =
                 EnterRequest(client, calls[c], "request", Undef,
                              [url |-> <<"/test">>, method |-> OrElse(method, Str("POST")).v,
                               data |-> data, responseType |-> "", accept |-> "",
                               headers |-> SentHeaders(client.self, headers)])]
  /\ UNCHANGED <<client, decoderVars>>

GetRouterConfig(c) ==
  /\ client.ok
  /\ calls[c].pc = "idle"
  /\ calls' = [calls EXCEPT ![c] =
                 EnterRequest(client, calls[c], "getRouterConfig", Undef,
                              [url |-> <<"/getRouterConfig/", client.self.routerId>>,
                               method |-> "GET", data |-> Undef, responseType |-> "",
                               accept |-> "", headers |-> SentHeaders(client.self, Undef)])]
  /\ UNCHANGED <<client, decoderVars>>

GetModels(c) ==
  /\ client.ok
  /\ calls[c].pc = "idle"
  /\ calls' = [calls EXCEPT ![c] =
                 EnterRequest(client, calls[c], "getModels", Undef,
                              [url |-> <<"/getModels">>, method |-> "GET", data |-> Undef,
                               responseType |-> "", accept |-> "",
                               headers |-> SentHeaders(client.self, Undef)])]
  /\ UNCHANGED <<client, decoderVars>>

\* the attempt in flight settles with r: request's try/catch, or the direct
\* httpClient call of _createStreamingCompletion
Settle(cl, call, r) ==
  LET seen == [call EXCEPT !.hist = Append(@, r)]
      e == handleError(r)
  IN IF call.via = "httpClient"
     THEN IF Resolves(r)
          THEN [seen EXCEPT !.pc = "returned", !.result = [t |-> "stream", v |-> r.data]]
          ELSE [seen EXCEPT !.pc = "raised", !.error = e]
     ELSE IF Resolves(r)
          THEN [seen EXCEPT !.pc = "returned", !.result = r.data]
          ELSE IF NotRetried(e)
          THEN [seen EXCEPT !.pc = "raised", !.lastError = e, !.error = e]
          ELSE IF LastAttempt(cl, call.attempt)
          THEN [seen EXCEPT !.pc = "raised", !.lastError = e, !.error = e]
          ELSE [seen EXCEPT !.pc = "backoff", !.lastError = e,
                            !.waits = Append(@, BackoffDelay(call.attempt))]

HttpRespond(c, responses) ==
  /\ calls[c].pc = "inflight"
  /\ \E r \in responses :
       calls' = [calls EXCEPT ![c] = Settle(client, calls[c], r)]
  /\ UNCHANGED <<client, decoderVars>>

\* a variant of AfterBackoff that issues the next attempt twice
AfterBackoffSendsTwice(cl, call) ==
  IF LoopContinues(cl, call.attempt + 1)
  THEN [call EXCEPT !.pc = "inflight", !.attempt = @ + 1, !.httpCalls = @ + 2]
  ELSE [call EXCEPT !.pc = "raised", !.attempt = @ + 1, !.error = call.lastError]

\* the backoff timer fires: attempt++, the loop test, the next attempt
AfterBackoff(cl, call) ==
  IF LoopContinues(cl, call.attempt + 1)
  THEN [call EXCEPT !.pc = "inflight", !.attempt = @ + 1, !.httpCalls = @ + 1]
  ELSE [call EXCEPT !.pc = "raised", !.attempt = @ + 1, !.error = call.lastError]

BackoffElapsed(c) ==
  /\ calls[c].pc = "backoff"
  /\ calls' = [calls EXCEPT ![c] = AfterBackoff(client, calls[c])]
  /\ UNCHANGED <<client, decoderVars>>

-----------------------------------------------------------------------------
(* Text: strings of the wire are sequences of one-character strings *)

Whitespace == {" ", "\t", "\r", "\n"}
Digits == {"0", "1", "2", "3", "4", "5", "6", "7", "8", "9"}

\* s.indexOf(c, from), 1-based; 0 when c does not occur at or after from
IndexFrom(s, c, from) ==
  LET hits == {i \in from..Len(s) : s[i] = c}
  IN IF hits = {} THEN 0 ELSE CHOOSE i \in hits : \A j \in hits : i <= j

\* s.split('\n')
RECURSIVE Split(_)
Split(s) ==
  LET i == IndexFrom(s, "\n", 1)
  IN IF i = 0 THEN <<s>>
     ELSE <<SubSeq(s, 1, i - 1)>> \o Split(SubSeq(s, i + 1, Len(s)))

\* s.trim()
Trim(s) ==
  LET solid == {i \in 1..Len(s) : s[i] \notin Whitespace}
  IN IF solid = {} THEN <<>>
     ELSE SubSeq(s, CHOOSE i \in solid : \A j \in solid : i <= j,
                    CHOOSE i \in solid : \A j \in solid : i >= j)

\* Characters and bytes.  An ASCII character and its one byte are written as
\* the same one-character string.  One character outside ASCII is modelled,
\* e with acute accent: two bytes in UTF-8.  ReplacementChar is U+FFFD.
EAcute == "U+00E9"
ReplacementChar == "U+FFFD"
LeadByte == "0xC3"
ContinuationByte == "0xA9"

\* Buffer.from(text): the UTF-8 bytes of a text
RECURSIVE Utf8Bytes(_)
Utf8Bytes(text) ==
  IF text = <<>> THEN <<>>
  ELSE IF Len(text) = 1
  THEN (IF text[1] = EAcute THEN <<LeadByte, ContinuationByte>> ELSE text)
  ELSE Utf8Bytes(SubSeq(text, 1, Len(text) \div 2))
       \o Utf8Bytes(SubSeq(text, Len(text) \div 2 + 1, Len(text)))

\* what the byte at position i of a buffer decodes to: a lead byte with its
\* continuation byte gives the character and the continuation byte nothing
\* more; a lead byte without its continuation byte, and a continuation byte
\* without its lead byte, each give U+FFFD
DecodedAt(bytes, i) ==
  IF bytes[i] = LeadByte
  THEN IF i < Len(bytes) /\ bytes[i + 1] = ContinuationByte THEN EAcute
       ELSE ReplacementChar
  ELSE IF bytes[i] = ContinuationByte
  THEN IF i > 1 /\ bytes[i - 1] = LeadByte THEN "" ELSE ReplacementChar
  ELSE bytes[i]

\* chunk.toString(): the bytes of one buffer decoded as UTF-8 on their own
toString(bytes) ==
  SelectSeq([i \in 1..Len(bytes) |-> DecodedAt(bytes, i)], LAMBDA ch : ch # "")

DataPrefix == <<"d", "a", "t", "a", ":", " ">>
DoneMarker == <<"[", "D", "O", "N", "E", "]">>

\* chunk.replace(/^data: /, '')
StripDataPrefix(s) ==
  IF StartsWith(s, DataPrefix) THEN SubSeq(s, Len(DataPrefix) + 1, Len(s)) ELSE s

-----------------------------------------------------------------------------
(* JSON.parse, for JSON without escapes, fractions or exponents *)

Failed == [ok |-> FALSE, val |-> Undef, pos |-> 0]
Parsed(val, pos) == [ok |-> TRUE, val |-> val, pos |-> pos]

\* the first position at or after i that holds no whitespace (Len(s) + 1 at the end)
SkipWs(s, i) ==
  LET solid == {j \in i..Len(s) : s[j] \notin Whitespace}
  IN IF solid = {} THEN Len(s) + 1 ELSE CHOOSE j \in solid : \A k \in solid : j <= k

At(s, i) == IF i >= 1 /\ i <= Len(s) THEN s[i] ELSE ""

\* a string literal opening at s[i] = '"': up to the next quote, no raw control
\* characters and no backslash inside
ParseString(s, i) ==
  LET j == IndexFrom(s, "\"", i + 1)
  IN IF j = 0 \/ \E k \in (i + 1)..(j - 1) : s[k] \in {"\t", "\r", "\n", "\\"}
     THEN Failed
     ELSE Parsed(Str(SubSeq(s, i + 1, j - 1)), j + 1)

DigitValue(c) ==
  CASE c = "0" -> 0 [] c = "1" -> 1 [] c = "2" -> 2 [] c = "3" -> 3 [] c = "4" -> 4
    [] c = "5" -> 5 [] c = "6" -> 6 [] c = "7" -> 7 [] c = "8" -> 8 [] c = "9" -> 9

RECURSIVE DigitsValue(_)
DigitsValue(ds) ==
  IF Len(ds) = 0 THEN 0
  ELSE 10 * DigitsValue(SubSeq(ds, 1, Len(ds) - 1)) + DigitValue(ds[Len(ds)])

\* an unsigned integer literal opening at the digit s[i]; no leading zero
ParseNumber(s, i) ==
  LET others == {j \in i..Len(s) : s[j] \notin Digits}
      end == IF others = {} THEN Len(s) + 1 ELSE CHOOSE j \in others : \A k \in others : j <= k
  IN IF s[i] = "0" /\ end > i + 1 THEN Failed
     ELSE Parsed(Num(Tenths(DigitsValue(SubSeq(s, i, end - 1)))), end)

ParseLiteral(s, i, word, val) ==
  IF SubSeq(s, i, Min(Len(s), i + Len(word) - 1)) = word
  THEN Parsed(val, i + Len(word)) ELSE Failed

\* obj with key set to val (a repeated key keeps the last value)
WithKey(obj, key, val) == {p \in obj : p[1] # key} \cup {<<key, val>>}

RECURSIVE ParseValue(_, _), ParseMembers(_, _, _), ParseElements(_, _, _)

\* a value opening at or after s[i], leading whitespace skipped
ParseValue(s, i) ==
  LET j == SkipWs(s, i)
      c == At(s, j)
  IN CASE c = "{" ->
            IF At(s, SkipWs(s, j + 1)) = "}" THEN Parsed(Obj({}), SkipWs(s, j + 1) + 1)
            ELSE ParseMembers(s, j + 1, {})
       [] c = "[" ->
            IF At(s, SkipWs(s, j + 1)) = "]" THEN Parsed(Arr(<<>>), SkipWs(s, j + 1) + 1)
            ELSE ParseElements(s, j + 1, <<>>)
       [] c = "\"" -> ParseString(s, j)
       [] c \in Digits -> ParseNumber(s, j)
       [] c = "t" -> ParseLiteral(s, j, <<"t", "r", "u", "e">>, Bool(TRUE))
       [] c = "f" -> ParseLiteral(s, j, <<"f", "a", "l", "s", "e">>, Bool(FALSE))
       [] c = "n" -> ParseLiteral(s, j, <<"n", "u", "l", "l">>, Null)
       [] OTHER -> Failed

\* after a member's value val: a comma and more members, or the closing brace
MemberEnd(s, key, val, obj) ==
  LET next == SkipWs(s, val.pos)
  IN IF ~val.ok THEN Failed
     ELSE IF At(s, next) = "," THEN ParseMembers(s, next + 1, WithKey(obj, key, val.val))
     ELSE IF At(s, next) = "}" THEN Parsed(Obj(WithKey(obj, key, val.val)), next + 1)
     ELSE Failed

\* after a member's key: the colon and the member's value
MemberValue(s, key, obj) ==
  LET colon == SkipWs(s, key.pos)
  IN IF key.ok /\ At(s, colon) = ":"
     THEN MemberEnd(s, key.val.v, ParseValue(s, colon + 1), obj)
     ELSE Failed

\* the members of an object from s[i] on, those before it gathered in obj
ParseMembers(s, i, obj) ==
  LET j == SkipWs(s, i)
  IN IF At(s, j) = "\"" THEN MemberValue(s, ParseString(s, j), obj) ELSE Failed

\* after an element val: a comma and more elements, or the closing bracket
ElementEnd(s, val, arr) ==
  LET next == SkipWs(s, val.pos)
  IN IF ~val.ok THEN Failed
     ELSE IF At(s, next) = "," THEN ParseElements(s, next + 1, Append(arr, val.val))
     ELSE IF At(s, next) = "]" THEN Parsed(Arr(Append(arr, val.val)), next + 1)
     ELSE Failed

\* the elements of an array from s[i] on, those before it gathered in arr
ParseElements(s, i, arr) == ElementEnd(s, ParseValue(s, i), arr)

\* a parse of s that stops short of the end of s is no parse
WholeText(s, r) == IF r.ok /\ SkipWs(s, r.pos) = Len(s) + 1 THEN r ELSE Failed

\* JSON.parse(s): the value, or a failure (a SyntaxError) when s is not one
\* JSON text
JsonParse(s) == WholeText(s, ParseValue(s, 1))

-----------------------------------------------------------------------------
(* extractStreamingText (utils.js) *)

KeyChoices == <<"c", "h", "o", "i", "c", "e", "s">>
KeyDelta == <<"d", "e", "l", "t", "a">>
KeyMessage == <<"m", "e", "s", "s", "a", "g", "e">>
KeyContent == <<"c", "o", "n", "t", "e", "n", "t">>

\* x[0]
Index0(x) ==
  CASE x.t = "array" -> First(x)
    [] x.t = "string" -> IF Len(x.v) > 0 THEN Str(<<x.v[1]>>) ELSE Undef
    [] OTHER -> Get(x, <<"0">>)

\* a variant of ChoiceContent that looks at message.content first
ChoiceContentMessageFirst(choice) ==
  LET delta == Get(choice, KeyDelta)
      message == Get(choice, KeyMessage)
  IN IF Truthy(message) /\ Truthy(Get(message, KeyContent)) THEN Get(message, KeyContent)
     ELSE IF Truthy(delta) /\ Truthy(Get(delta, KeyContent))
     THEN Get(delta, KeyContent)
     ELSE Null

\* choice.delta.content, else choice.message.content, else null
ChoiceContent(choice) ==
  LET delta == Get(choice, KeyDelta)
      message == Get(choice, KeyMessage)
  IN IF Truthy(delta) /\ Truthy(Get(delta, KeyContent)) THEN Get(delta, KeyContent)
     ELSE IF Truthy(message) /\ Truthy(Get(message, KeyContent))
     THEN Get(message, KeyContent)
     ELSE Null

\* if (data.choices && data.choices[0]) ... return null
ChoicesContent(choices) ==
  IF Truthy(choices) /\ Truthy(Index0(choices)) THEN ChoiceContent(Index0(choices))
  ELSE Null

\* a variant of ParsedContent whose catch block returns '' instead of null
ParsedContentEmptyOnError(parsed) ==
  IF ~parsed.ok THEN Str(<<>>)
  ELSE IF parsed.val.t \in {"null", "undefined"} THEN Str(<<>>)
  ELSE ChoicesContent(Get(parsed.val, KeyChoices))

\* the catch block: a line that is no JSON, and data that is null (reading
\* data.choices throws), give null
ParsedContent(parsed) ==
  IF ~parsed.ok THEN Null
  ELSE IF parsed.val.t \in {"null", "undefined"} THEN Null
  ELSE ChoicesContent(Get(parsed.val, KeyChoices))

\* the body of the try block, for the line without its data: prefix
CleanChunkText(cleanChunk) ==
  IF Trim(cleanChunk) = <<>> \/ Trim(cleanChunk) = DoneMarker THEN Null
  ELSE ParsedContent(JsonParse(cleanChunk))

\* the text of one line, or null: null for a blank line, for [DONE], for JSON
\* without content, and for whatever throws inside the try block
extractStreamingText(chunk) == CleanChunkText(StripDataPrefix(chunk))

-----------------------------------------------------------------------------
(* Inputs *)

MaxConfiguredRetries == 2
MaxFields == 2

GoodKey == Str(<<"m", "p", "_", "k">>)
BadKey == Str(<<"s", "k", "_", "k">>)

\* the objects over the given <<key, value>> choices that hold at most n of
\* them, no key twice
RECURSIVE ObjectsUpTo(_, _)
ObjectsUpTo(pairs, n) ==
  IF n = 0 THEN {{}}
  ELSE LET prev == ObjectsUpTo(pairs, n - 1)
       IN prev \cup {S \cup {p} : <<S, p>> \in
                       {sp \in prev \X pairs : \A q \in sp[1] : q[1] # sp[2][1]}}

ConfigChoices ==
  {<<"apiKey", GoodKey>>, <<"apiKey", BadKey>>, <<"routerId", Str("r1")>>,
   <<"maxRetries", Num(-10)>>}
  \cup {<<"maxRetries", Num(Tenths(n))>> : n \in 0..MaxConfiguredRetries}

Configs == {Obj(S) : S \in ObjectsUpTo(ConfigChoices, 3)}

UserMessage == Obj({<<"role", Str("user")>>, <<"content", Str("Hello!")>>})
CallMessage ==
  Obj({<<"role", Str("assistant")>>,
       <<"function_call", Obj({<<"name", Str("get_weather")>>, <<"arguments", Str("{}")>>})>>})
WeatherFunction ==
  Obj({<<"name", Str("get_weather")>>, <<"description", Str("Get weather")>>,
       <<"parameters", Obj({<<"type", Str("object")>>})>>})

MessagesChoices ==
  {Null, Str("invalid"), Arr(<<>>), Arr(<<UserMessage>>), Arr(<<UserMessage, CallMessage>>),
   Arr(<<Obj({<<"role", Str("invalid")>>, <<"content", Str("test")>>})>>),
   Arr(<<Obj({<<"content", Str("Missing role")>>})>>),
   Arr(<<UserMessage, Obj({<<"role", Str("user")>>})>>),
   Arr(<<Obj({<<"role", Str("user")>>, <<"content", Str("")>>})>>)}

FunctionsChoices ==
  {Null, Str("invalid"), Str(""), Arr(<<>>), Arr(<<WeatherFunction>>),
   Arr(<<Obj({<<"description", Str("Missing name")>>})>>)}

ToolsChoices ==
  {Bool(FALSE), Str("invalid"),
   Arr(<<Obj({<<"type", Str("function")>>, <<"function", WeatherFunction>>})>>),
   Arr(<<Obj({<<"function", Obj({<<"name", Str("test")>>})>>})>>),
   Arr(<<Obj({<<"type", Str("function")>>})>>),
   Arr(<<Obj({<<"type", Str("function")>>, <<"function", Obj({<<"description", Str("d")>>})>>})>>)}

ParamChoices ==
  {<<"messages", m>> : m \in MessagesChoices}
  \cup {<<"functions", f>> : f \in FunctionsChoices}
  \cup {<<"tools", t>> : t \in ToolsChoices}
  \cup {<<"max_tokens", x>> : x \in {Num(0), Num(-10), Num(1000), Str("100")}}
  \cup {<<"temperature", x>> : x \in {Num(0), Num(7), Num(20), Num(25), Num(-5)}}
  \cup {<<"top_p", x>> : x \in {Num(0), Num(5), Num(10), Num(15)}}
  \cup {<<"stream", x>> : x \in {Bool(TRUE), Bool(FALSE)}}
  \cup {<<"model", x>> : x \in {Str("gpt-4"), Str("")}}
  \cup {<<"routerId", Str("mine")>>}

\* create params: any messages value (or none) and up to MaxFields further fields
CreateParams ==
  {Obj(S) : S \in ObjectsUpTo(ParamChoices, MaxFields + 1)}

\* the few params the transport specification calls create with
PlainParams ==
  {Obj({<<"messages", Arr(<<UserMessage>>)>>}),
   Obj({<<"messages", Arr(<<UserMessage>>)>>, <<"stream", Bool(TRUE)>>}),
   Obj({<<"messages", Arr(<<>>)>>})}

OkBody == Obj({<<"success", Bool(TRUE)>>})
MessageBody == Obj({<<"message", Str("from server")>>})
NestedBody == Obj({<<"error", Obj({<<"message", Str("from server")>>})>>})

ErrorStatuses == {400, 401, 429, 500}

\* statuses answered with a body only, and the empty body ('' once parsed)
OtherStatuses == {404, 422}
EmptyBody == Str("")

Responses ==
  {HttpResponse(200, OkBody), HttpResponse(503, NestedBody), NoResponse, SetupFailure}
  \cup {HttpResponse(s, d) : s \in ErrorStatuses, d \in {MessageBody, NestedBody, Null}}
  \cup {HttpResponse(s, d) : s \in OtherStatuses, d \in {MessageBody, NestedBody}}
  \cup {HttpResponse(401, EmptyBody), HttpResponse(404, EmptyBody)}

FewResponses ==
  {HttpResponse(200, OkBody), HttpResponse(401, NestedBody), HttpResponse(500, NestedBody)}

\* the configurations of the clients that run two calls at once
ConcurrentConfigs ==
  {Obj({<<"apiKey", GoodKey>>, <<"maxRetries", Num(Tenths(n))>>}) : n \in 0..1}

\* the configurations of the clients whose backoff waits are followed up to the
\* cap, and the replies their attempts get
MaxBackoffRetries == 6

BackoffConfigs ==
  {Obj({<<"apiKey", GoodKey>>})}
  \cup {Obj({<<"apiKey", GoodKey>>, <<"maxRetries", Num(Tenths(n))>>}) :
          n \in 0..MaxBackoffRetries}

BackoffResponses ==
  {HttpResponse(200, OkBody), HttpResponse(401, NestedBody), HttpResponse(500, NestedBody),
   HttpResponse(503, NestedBody), NoResponse}

\* headers a caller may configure (defaultHeaders) or pass with one request
TraceHeader == Obj({<<"X-Trace", Str("1")>>})
OtherAuthorization ==
  Obj({<<"Authorization", Str(<<"B", "e", "a", "r", "e", "r", " ", "x">>)>>})

HeaderChoices == {Undef, TraceHeader, OtherAuthorization}

HeaderConfigs ==
  {Obj({<<"apiKey", GoodKey>>} \cup {<<"defaultHeaders", h>> : h \in {x \in {d} : x # Undef}}) :
     d \in HeaderChoices}

-----------------------------------------------------------------------------
(* Wire texts for the stream decoder *)

Quoted(s) == <<"\"">> \o s \o <<"\"">>
Member(key, val) == Quoted(key) \o <<":">> \o val
Braced(body) == <<"{">> \o body \o <<"}">>
Bracketed(body) == <<"[">> \o body \o <<"]">>

\* {"choices":[{"<shape>":{"content":"<content>"}}]}
ChoiceJson(shape, content) ==
  Braced(Member(KeyChoices,
                Bracketed(Braced(Member(shape, Braced(Member(KeyContent, Quoted(content))))))))

\* {"choices":[{"delta":<delta>,"message":{"content":"<content>"}}]}
BothJson(delta, content) ==
  Braced(Member(KeyChoices,
                Bracketed(Braced(Member(KeyDelta, delta) \o <<",">>
                                 \o Member(KeyMessage,
                                            Braced(Member(KeyContent, Quoted(content))))))))

\* the content carried by the n-th line of a script
ContentAt(n) ==
  CASE n = 1 -> <<"H", EAcute>>
    [] n = 2 -> <<" ", "y", "o">>
    [] n = 3 -> <<"!">>
    [] OTHER -> <<"?">>

LineKinds == {"delta", "done", "bad"}

\* the text of the n-th line of a script, by kind
LineText(kind, n) ==
  CASE kind = "delta" -> DataPrefix \o ChoiceJson(KeyDelta, ContentAt(n))
    [] kind = "message" -> DataPrefix \o ChoiceJson(KeyMessage, ContentAt(n))
    [] kind = "bare" -> ChoiceJson(KeyDelta, ContentAt(n))
    [] kind = "empty" -> DataPrefix \o ChoiceJson(KeyDelta, <<>>)
    [] kind = "done" -> DataPrefix \o DoneMarker
    [] kind = "both" ->
         DataPrefix \o BothJson(Braced(Member(KeyContent, Quoted(ContentAt(n)))), <<"m">>)
    [] kind = "fallback" -> DataPrefix \o BothJson(Braced(<<>>), ContentAt(n))
    [] kind = "neither" -> DataPrefix \o Braced(Member(KeyChoices, Bracketed(Braced(<<>>))))
    [] kind = "blank" -> DataPrefix
    [] kind = "bad" -> DataPrefix \o <<"{", "\"", "c", "h", "o", ":">>
    [] OTHER -> <<>>

\* a script: the kinds of its lines, what ends a line ("\n", "\n\n" as in the
\* event-stream framing, or "\r\n"), and whether the last line is ended too
RECURSIVE ScriptText(_, _)
ScriptText(sc, n) ==
  IF n > Len(sc.kinds) THEN <<>>
  ELSE LineText(sc.kinds[n], n)
       \o (IF n < Len(sc.kinds) \/ sc.closed THEN sc.eol ELSE <<>>)
       \o ScriptText(sc, n + 1)

WireText(sc) == ScriptText(sc, 1)

\* the bytes the source sends for a script
WireBytes(sc) == Utf8Bytes(WireText(sc))

MaxLines == 2

RECURSIVE KindSeqs(_)
KindSeqs(n) ==
  IF n = 0 THEN {<<>>}
  ELSE KindSeqs(n - 1) \cup {Append(k, x) : k \in KindSeqs(n - 1), x \in LineKinds}

Script(kinds, eol, closed) == [kinds |-> kinds, eol |-> eol, closed |-> closed]

\* every script of at most MaxLines lines, and the scripts of the test suite
\* and of the other line shapes
Scripts ==
  {Script(k, eol, closed) :
     k \in KindSeqs(MaxLines), eol \in {<<"\n">>, <<"\n", "\n">>}, closed \in BOOLEAN}
  \cup {Script(<<"delta", "delta", "done">>, <<"\n", "\n">>, TRUE),
        Script(<<"delta", "bad", "delta">>, <<"\n">>, FALSE),
        Script(<<"delta", "done">>, <<"\r", "\n">>, TRUE),
        Script(<<"message", "empty", "bare">>, <<"\n">>, TRUE)}

\* scripts with one line of every shape extractStreamingText tells apart
LineScripts ==
  {Script(<<k>>, <<"\n">>, TRUE) :
     k \in {"delta", "message", "bare", "empty", "done", "bad", "both", "fallback",
            "neither", "blank"}}
  \cup {Script(<<"both", "blank", "fallback">>, <<"\n">>, TRUE),
        Script(<<"neither", "done", "message">>, <<"\n">>, FALSE),
        Script(<<"empty", "both">>, <<"\r", "\n">>, TRUE)}

-----------------------------------------------------------------------------
(* ChatCompletionStream (chat.js) *)

Consumers == {1, 2}

ContentChunk(text) ==
  [delta |-> {<<"content", text>>}, index |-> 0, finish_reason |-> "null",
   model |-> "modelpilot-routed", object |-> "chat.completion.chunk"]

FinalChunk ==
  [delta |-> {}, index |-> 0, finish_reason |-> "stop",
   model |-> "modelpilot-routed", object |-> "chat.completion.chunk"]

\* the generator before its first next(): nothing run yet
FreshIter == [pc |-> "fresh", lines |-> <<>>, out |-> <<>>, error |-> NoError]

Last(seq) == seq[Len(seq)]
Front(seq) == SubSeq(seq, 1, Len(seq) - 1)

\* a variant of KeepTail that keeps nothing of the incomplete line
KeepTailDropped(lines) == <<>>

\* lines.pop() || '' : the incomplete line kept for the next buffer
KeepTail(lines) == Last(lines)

\* what a line yields: its text, or null when it fails if (line.trim()) or
\* if (text !== null)
LineYield(line) == IF Trim(line) = <<>> THEN Null ELSE extractStreamingText(line)

RECURSIVE RunLines(_)

FirstYield(text, rest) ==
  IF text # Null THEN [yielded |-> TRUE, text |-> text, rest |-> rest]
  ELSE RunLines(rest)

\* a variant of RunLines that leaves the loop at a [DONE] line
RunLinesStopAtDone(lines) ==
  IF lines = <<>> \/ Trim(StripDataPrefix(Head(lines))) = DoneMarker
  THEN [yielded |-> FALSE, text |-> Null, rest |-> <<>>]
  ELSE FirstYield(LineYield(Head(lines)), Tail(lines))

\* the for loop over lines, run up to its first yield
RunLines(lines) ==
  IF lines = <<>> THEN [yielded |-> FALSE, text |-> Null, rest |-> <<>>]
  ELSE FirstYield(LineYield(Head(lines)), Tail(lines))

\* the generator stops at the yield r found, or goes round to the next await of
\* the source
StopAt(it, r) ==
  IF r.yielded
  THEN [it EXCEPT !.pc = "yielded", !.lines = r.rest,
                  !.out = Append(@, ContentChunk(r.text))]
  ELSE [it EXCEPT !.pc = "await", !.lines = <<>>]

\* the generator runs on from inside the for loop
ContinueLoop(it, lines) == StopAt(it, RunLines(lines))

\* a variant of Resume that ends after the chunk of an unended last line,
\* without the final chunk
ResumeEndsAfterTail(it) ==
  CASE it.pc = "fresh" -> [it EXCEPT !.pc = "await"]
    [] it.pc = "yielded" -> ContinueLoop(it, it.lines)
    [] it.pc = "tailYielded" -> [it EXCEPT !.pc = "done"]
    [] it.pc = "finalYielded" -> [it EXCEPT !.pc = "done"]

\* the consumer calls next(): the generator starts, or resumes after a yield
Resume(it) ==
  CASE it.pc = "fresh" -> [it EXCEPT !.pc = "await"]
    [] it.pc = "yielded" -> ContinueLoop(it, it.lines)
    [] it.pc = "tailYielded" -> [it EXCEPT !.pc = "finalYielded", !.out = Append(@, FinalChunk)]
    [] it.pc = "finalYielded" -> [it EXCEPT !.pc = "done"]

\* the generator is suspended at its start or at a yield
CanPull(i) == iters[i].pc \in {"fresh", "yielded", "tailYielded", "finalYielded"}

Pull(i) ==
  /\ CanPull(i)
  /\ iters' = [iters EXCEPT ![i] = Resume(iters[i])]
  /\ UNCHANGED <<client, calls, script, source, _buffer>>

\* the sizes the source may give its next buffer: a few bytes (so that a cut
\* can fall at every position), up to the end of the line in progress, or
\* the whole of what is left
MaxChunk == 2

BufferSizes(rest) ==
  LET eol == IndexFrom(rest, "\n", 1)
  IN {n \in 1..Len(rest) : n <= MaxChunk \/ n = eol \/ n = Len(rest)}

\* whether a buffer of the first n bytes of rest ends inside a character
Tears(rest, n) == n < Len(rest) /\ rest[n] = LeadByte

\* the source hands the awaiting generator its next buffer (source.torn records
\* that some buffer so far ended inside a character, source.text the text of
\* the buffers handed over so far, source.lines the lines given to the for loop)
CanDeliver(i) == iters[i].pc = "await" /\ source.rest # <<>>

Deliver(i) ==
  /\ CanDeliver(i)
  /\ \E n \in BufferSizes(source.rest) :
       LET lines == Split(_buffer \o toString(SubSeq(source.rest, 1, n)))
       IN /\ _buffer' = KeepTail(lines)
          /\ iters' = [iters EXCEPT ![i] = ContinueLoop(iters[i], Front(lines))]
          /\ source' = [source EXCEPT !.rest = SubSeq(source.rest, n + 1, Len(source.rest)),
                                      !.torn = source.torn \/ Tears(source.rest, n),
                                      !.text = @ \o toString(SubSeq(source.rest, 1, n)),
                                      !.lines = @ \o Front(lines)]
  /\ UNCHANGED <<client, calls, script>>

\* the code after the for await loop, up to its first yield: the text of what
\* is left in the buffer, if it has one, else the final chunk
TailYield(it, text) ==
  IF text # Null
  THEN [it EXCEPT !.pc = "tailYielded", !.out = Append(@, ContentChunk(text))]
  ELSE [it EXCEPT !.pc = "finalYielded", !.out = Append(@, FinalChunk)]

AfterLoop(it, buffer) == TailYield(it, LineYield(buffer))

\* the source reports its end to the awaiting generator
CanEnd(i) == iters[i].pc = "await" /\ source.rest = <<>>

EndOfSource(i) ==
  /\ CanEnd(i)
  /\ iters' = [iters EXCEPT ![i] = AfterLoop(iters[i], _buffer)]
  /\ UNCHANGED <<client, calls, script, source, _buffer>>

\* chunk.choices[0].delta.content
DeltaContent(chunk) ==
  IF \E p \in chunk.delta : p[1] = "content"
  THEN (CHOOSE p \in chunk.delta : p[1] = "content")[2]
  ELSE Undef

\* the consumer ends the iteration early: break or throw inside for await, or
\* return() on the iterator.  A generator suspended at its start just ends; one
\* suspended at a yield inside its for await loop closes the iterator of the
\* source on its way out; one that is running (awaiting the source for a
\* next() not yet answered) queues the return and takes it at its next yield.
CloseOnReturn(it, src) ==
  IF it.pc = "yielded" THEN [src EXCEPT !.state = "closed"] ELSE src

OnReturn(it) ==
  IF it.pc = "await" THEN [it EXCEPT !.pc = "awaitReturning"]
  ELSE [it EXCEPT !.pc = "returned", !.lines = <<>>]

Abandon(i) ==
  /\ CanPull(i) \/ iters[i].pc = "await"
  /\ iters' = [iters EXCEPT ![i] = OnReturn(iters[i])]
  /\ source' = CloseOnReturn(iters[i], source)
  /\ UNCHANGED <<client, calls, script, _buffer>>

\* the generator with a queued return runs on: at a yield it answers the
\* pending next() with the chunk and returns, else it awaits the source again
LeaveAt(it, r) ==
  IF r.yielded
  THEN [it EXCEPT !.pc = "returned", !.out = Append(@, ContentChunk(r.text))]
  ELSE it

\* the source hands its next buffer to a generator with a queued return
\* (source.late counts these buffers)
DeliverToLeaving(i) ==
  /\ iters[i].pc = "awaitReturning"
  /\ source.rest # <<>>
  /\ \E n \in BufferSizes(source.rest) :
       LET lines == Split(_buffer \o toString(SubSeq(source.rest, 1, n)))
       IN /\ _buffer' = KeepTail(lines)
          /\ iters' = [iters EXCEPT ![i] = LeaveAt(iters[i], RunLines(Front(lines)))]
          /\ source' = [source EXCEPT !.rest = SubSeq(source.rest, n + 1, Len(source.rest)),
                                      !.torn = source.torn \/ Tears(source.rest, n),
                                      !.late = @ + 1,
                                      !.text = @ \o toString(SubSeq(source.rest, 1, n)),
                                      !.lines = @ \o Front(lines),
                                      !.state = IF iters'[i].pc = "returned"
                                                THEN "closed" ELSE @]
  /\ UNCHANGED <<client, calls, script>>

\* the source reports its end to a generator with a queued return
EndToLeaving(i) ==
  /\ iters[i].pc = "awaitReturning"
  /\ source.rest = <<>>
  /\ iters' = [iters EXCEPT ![i] = [AfterLoop(iters[i], _buffer) EXCEPT !.pc = "returned"]]
  /\ UNCHANGED <<client, calls, script, source, _buffer>>

\* the error of a source that breaks (a dropped connection): a plain Error of
\* the stream
SourceError == PlainError("aborted", -1)

\* the error leaves the generator as the source threw it
Rethrown(e) == e

\* a variant of SourceFails in which the code after the loop still runs
SourceFailsAfterLoopRuns(i) ==
  /\ iters[i].pc \in {"await", "awaitReturning"}
  /\ source.state = "open"
  /\ iters' = [iters EXCEPT ![i] = [AfterLoop(@, _buffer) EXCEPT
                                     !.pc = "failed", !.error = Rethrown(SourceError)]]
  /\ source' = [source EXCEPT !.state = "failed"]
  /\ UNCHANGED <<client, calls, script, _buffer>>

\* the source fails while the generator awaits its next buffer
SourceFails(i) ==
  /\ iters[i].pc \in {"await", "awaitReturning"}
  /\ source.state = "open"
  /\ iters' = [iters EXCEPT ![i] = [@ EXCEPT !.pc = "failed", !.error = Rethrown(SourceError)]]
  /\ source' = [source EXCEPT !.state = "failed"]
  /\ UNCHANGED <<client, calls, script, _buffer>>

\* toArray: for await (const chunk of this) chunks.push(chunk)
RECURSIVE PushAll(_, _)
PushAll(chunks, yields) ==
  IF yields = <<>> THEN chunks
  ELSE PushAll(Append(chunks, Head(yields)), Tail(yields))

toArray(yields) == PushAll(<<>>, yields)

\* a variant of AddContent that keeps only the latest fragment
AddContentLatestOnly(text, chunk) ==
  IF Truthy(DeltaContent(chunk)) THEN DeltaContent(chunk).v ELSE text

\* getText: if (chunk.choices[0].delta.content) text += ...
AddContent(text, chunk) ==
  IF Truthy(DeltaContent(chunk)) THEN text \o DeltaContent(chunk).v ELSE text

RECURSIVE AddAll(_, _)
AddAll(text, yields) ==
  IF yields = <<>> THEN text
  ELSE AddAll(AddContent(text, Head(yields)), Tail(yields))

getText(yields) == AddAll(<<>>, yields)

-----------------------------------------------------------------------------
(* Specifications *)

NoDecoder ==
  /\ script = Script(<<>>, <<"\n">>, TRUE)
  /\ source = [rest |-> <<>>, torn |-> FALSE, state |-> "open", late |-> 0,
               text |-> <<>>, lines |-> <<>>]
  /\ _buffer = <<>>
  /\ iters = [i \in Consumers |-> FreshIter]

InitWith(configs) ==
  /\ client \in {NewClient(config) : config \in configs}
  /\ calls = [c \in CallIds |-> IdleCall]
  /\ NoDecoder

\* Spec: one create call over the whole range of params, a small transport
Init == InitWith({Obj({<<"apiKey", GoodKey>>}), Obj({<<"apiKey", GoodKey>>, <<"routerId", Str("r1")>>,
                       <<"maxRetries", Num(Tenths(1))>>})})

Next ==
  \/ Create(1, CreateParams)
  \/ HttpRespond(1, FewResponses)
  \/ BackoffElapsed(1)

Spec == Init /\ [][Next]_vars

\* RetrySpec: every entry point, every configuration, the whole range of responses
RetryInit == InitWith(Configs)

RetryNext ==
  \/ Create(1, PlainParams)
  \/ \E m \in {Undef, Str("POST")}, d \in {Undef, Obj({<<"test", Str("data")>>})} :
       Request(1, m, d, Undef)
  \/ GetRouterConfig(1)
  \/ GetModels(1)
  \/ HttpRespond(1, Responses)
  \/ BackoffElapsed(1)

RetrySpec == RetryInit /\ [][RetryNext]_vars

\* the timers and the transport eventually answer
FairRetrySpec ==
  RetrySpec /\ WF_vars(HttpRespond(1, Responses)) /\ WF_vars(BackoffElapsed(1))

\* HeaderSpec: every entry point, with configured and per-request headers
HeaderInit == InitWith(HeaderConfigs)

HeaderNext ==
  \/ Create(1, PlainParams)
  \/ \E h \in HeaderChoices : Request(1, Undef, Undef, h)
  \/ GetRouterConfig(1)
  \/ GetModels(1)
  \/ HttpRespond(1, FewResponses)
  \/ BackoffElapsed(1)

HeaderSpec == HeaderInit /\ [][HeaderNext]_vars

\* BackoffSpec: request on clients with up to MaxBackoffRetries retries
BackoffInit == InitWith(BackoffConfigs)

BackoffNext ==
  \/ Request(1, Undef, Undef, Undef)
  \/ HttpRespond(1, BackoffResponses)
  \/ BackoffElapsed(1)

BackoffSpec == BackoffInit /\ [][BackoffNext]_vars

\* ConcurrentSpec: two calls at once on one client, in every interleaving
ConcurrentInit == InitWith(ConcurrentConfigs)

ConcurrentNext ==
  \E c \in CallIds :
    \/ Create(c, PlainParams)
    \/ Request(c, Undef, Undef, Undef)
    \/ HttpRespond(c, FewResponses)
    \/ BackoffElapsed(c)

ConcurrentSpec == ConcurrentInit /\ [][ConcurrentNext]_vars

\* StreamSpec: one consumer iterates a new ChatCompletionStream(source)
StreamInit ==
  /\ client = NewClient(Obj({<<"apiKey", GoodKey>>}))
  /\ calls = [c \in CallIds |-> IdleCall]
  /\ script \in Scripts
  /\ source = [rest |-> WireBytes(script), torn |-> FALSE, state |-> "open", late |-> 0,
               text |-> <<>>, lines |-> <<>>]
  /\ _buffer = <<>>
  /\ iters = [i \in Consumers |-> FreshIter]

StreamNext ==
  \/ Pull(1)
  \/ Deliver(1)
  \/ EndOfSource(1)

StreamSpec == StreamInit /\ [][StreamNext]_vars

\* LineSpec: one consumer, sources whose lines have every shape
LineInit ==
  /\ client = NewClient(Obj({<<"apiKey", GoodKey>>}))
  /\ calls = [c \in CallIds |-> IdleCall]
  /\ script \in LineScripts
  /\ source = [rest |-> WireBytes(script), torn |-> FALSE, state |-> "open", late |-> 0,
               text |-> <<>>, lines |-> <<>>]
  /\ _buffer = <<>>
  /\ iters = [i \in Consumers |-> FreshIter]

LineSpec == LineInit /\ [][StreamNext]_vars

\* LifecycleSpec: the iteration may be left early, the source may fail, and the
\* drained stream may be iterated once more
LifecycleNext ==
  \/ Pull(1)
  \/ Deliver(1)
  \/ EndOfSource(1)
  \/ Abandon(1)
  \/ DeliverToLeaving(1)
  \/ EndToLeaving(1)
  \/ SourceFails(1)
  \/ (iters[1].pc = "done" /\ Pull(2))
  \/ EndOfSource(2)

LifecycleSpec == StreamInit /\ [][LifecycleNext]_vars

\* FailureSpec: one consumer iterates to the end, and the source may fail
FailureNext ==
  \/ Pull(1)
  \/ Deliver(1)
  \/ EndOfSource(1)
  \/ SourceFails(1)

FailureSpec == StreamInit /\ [][FailureNext]_vars

\* SharedSpec: two iterations of one ChatCompletionStream at the same time.
\* Each iteration holds an iterator of the one source (this.stream), which
\* hands each buffer to one of them, and both use this._buffer.
SharedNext ==
  \E i \in Consumers :
    \/ Pull(i)
    \/ Deliver(i)
    \/ EndOfSource(i)

SharedSpec == StreamInit /\ [][SharedNext]_vars

\* the consumer keeps asking and the source keeps delivering: weak fairness of
\* Pull, Deliver and EndOfSource.  Each of them changes vars whenever its guard
\* holds, so ENABLED <<A>>_vars is the guard, and the guard is written in its
\* place.
FairStreamSpec ==
  /\ StreamSpec
  /\ ([]<>(~CanPull(1)) \/ []<><<Pull(1)>>_vars)
  /\ ([]<>(~CanDeliver(1)) \/ []<><<Deliver(1)>>_vars)
  /\ ([]<>(~CanEnd(1)) \/ []<><<EndOfSource(1)>>_vars)

-----------------------------------------------------------------------------
(* The validation rules as the specification states them (section 4.1) *)

Present(o, k) == Get(o, k) # Undef

RuleFunction(f) ==
  /\ f.t = "object"
  /\ Get(f, "name").t = "string" /\ Len(Get(f, "name").v) > 0
  /\ Present(f, "description") => Get(f, "description").t = "string"
  /\ Present(f, "parameters") => Get(f, "parameters").t = "object"

RuleTool(t) ==
  /\ t.t = "object"
  /\ Present(t, "type")
  /\ Get(t, "type") = Str("function") =>
       Present(t, "function") /\ RuleFunction(Get(t, "function"))

RuleMessage(m) ==
  /\ m.t = "object"
  /\ Get(m, "role").t = "string" /\ Get(m, "role").v \in Roles
  /\ Present(m, "content") \/ Present(m, "function_call") \/ Present(m, "tool_calls")

MessagesUsable(x) == IsArray(x) /\ Len(x.v) > 0

RuleMessages(x) == MessagesUsable(x) /\ \A i \in 1..Len(x.v) : RuleMessage(x.v[i])

RuleList(x, Rule(_)) == IsArray(x) /\ \A i \in 1..Len(x.v) : Rule(x.v[i])

ObeysRules(params) ==
  /\ RuleMessages(Get(params, "messages"))
  /\ Present(params, "functions") => RuleList(Get(params, "functions"), RuleFunction)
  /\ Present(params, "tools") => RuleList(Get(params, "tools"), RuleTool)
  /\ Present(params, "max_tokens") =>
       Get(params, "max_tokens").t = "number" /\ Get(params, "max_tokens").v > 0
  /\ Present(params, "temperature") =>
       /\ Get(params, "temperature").t = "number"
       /\ Get(params, "temperature").v >= 0 /\ Get(params, "temperature").v <= 20
  /\ Present(params, "top_p") =>
       /\ Get(params, "top_p").t = "number"
       /\ Get(params, "top_p").v > 0 /\ Get(params, "top_p").v <= 10

-----------------------------------------------------------------------------
(* Claims about create and request *)

Call == calls[1]
Finished == Call.pc \in {"returned", "raised"}

\* the retry budget the client holds (this.maxRetries), as a count
Budget == client.self.maxRetries.v \div 10

\* C1: every create whose params break a validation rule raises an error and
\* makes no HTTP attempt, streaming or not.
C1_InvalidNeverSent ==
  (Call.op = "create" /\ ~ObeysRules(Call.params)) =>
    (Call.pc = "raised" /\ IsError(Call.error) /\ Call.httpCalls = 0)

\* C10: messages missing, null, empty or not an array: create fails with an
\* InvalidRequestError and makes no HTTP attempt.
C10_BadMessagesInvalidRequest ==
  (Call.op = "create" /\ ~MessagesUsable(Get(Call.params, "messages"))) =>
    /\ Call.pc = "raised"
    /\ InstanceOf(Call.error, "InvalidRequestError")
    /\ Call.httpCalls = 0

\* a failure the retry policy calls transient: HTTP 5xx, or no response at all
Transient(r) == (r.k = "response" /\ r.status >= 500) \/ r.k = "noResponse"

ClientError(r) == r.k = "response" /\ r.status >= 400 /\ r.status < 500

AllTransient(h) == \A j \in 1..Len(h) : Transient(h[j])

\* what a call returns for the success response r
Returned(call, r) ==
  IF call.via = "httpClient" THEN [t |-> "stream", v |-> r.data] ELSE r.data

\* C2: k <= maxRetries transient failures followed by a success: the call
\* returns that success after exactly k + 1 attempts; and while only transient
\* failures have been seen and the budget is not used up, request goes on to the
\* next attempt.
C2_RetryThenSuccess ==
  LET h == Call.hist
      n == Len(h)
  IN /\ (n >= 1 /\ n - 1 <= Budget /\ Resolves(h[n]) /\ AllTransient(SubSeq(h, 1, n - 1))) =>
          /\ Call.pc = "returned"
          /\ Call.result = Returned(Call, h[n])
          /\ Call.httpCalls = n
     /\ (Call.via = "request" /\ n >= 1 /\ n <= Budget /\ AllTransient(h)) =>
          \/ Call.pc = "backoff" /\ Call.httpCalls = n
          \/ Call.pc = "inflight" /\ Call.httpCalls = n + 1

C2_Witness ==
  /\ Len(Call.hist) = 3 /\ Call.hist[1].status = 500 /\ Call.hist[2].k = "noResponse"
  /\ Call.hist[3].status = 200 /\ Call.pc = "returned" /\ Call.httpCalls = 3
  /\ Call.result = OkBody

\* the error kind the status of a client error maps to
ClientErrorKind(r) ==
  CASE r.status = 401 -> "AuthenticationError"
    [] r.status = 429 -> "RateLimitError"
    [] OTHER -> "APIError"

\* C3: an attempt answered with 401 or another 4xx is the call's last one: the
\* classified error is raised at once, without a backoff wait, and a 4xx on the
\* first attempt leaves exactly one HTTP attempt.
C3_ClientErrorNotRetried ==
  \A j \in 1..Len(Call.hist) :
    ClientError(Call.hist[j]) =>
      /\ j = Len(Call.hist)
      /\ Call.pc = "raised"
      /\ Call.error.kind = ClientErrorKind(Call.hist[j])
      /\ Call.error.status = Call.hist[j].status
      /\ Call.httpCalls = j
      /\ Len(Call.waits) = j - 1

\* the retry limit the configuration asks for: maxRetries when given, else 3
ConfiguredLimit ==
  IF Present(client.self.config, "maxRetries")
  THEN Get(client.self.config, "maxRetries").v
  ELSE Tenths(DefaultMaxRetries)

\* C4: one call makes at most maxRetries + 1 HTTP attempts, for every accepted
\* maxRetries (0 included), and at most 4 when none is configured.
C4_AttemptsWithinConfiguredLimit ==
  client.ok => Tenths(Call.httpCalls - 1) <= ConfiguredLimit

\* every attempt of the call failed transiently and the call gave up
Exhausted == Call.via = "request" /\ Call.pc = "raised" /\ AllTransient(Call.hist)

\* C5: when every attempt of request fails transiently the call ends after
\* exactly maxRetries + 1 attempts, maxRetries being the configured limit (3
\* when none is configured), and raises the error of the last attempt.
C5_ExhaustedAtConfiguredLimit ==
  Exhausted =>
    /\ Tenths(Len(Call.hist) - 1) = ConfiguredLimit
    /\ Tenths(Call.httpCalls - 1) = ConfiguredLimit
    /\ Call.error = handleError(Call.hist[Len(Call.hist)])

\* the same with the limit the client holds (this.maxRetries) in place of the
\* configured one: this much holds
ExhaustedAtBudget ==
  Exhausted =>
    /\ Len(Call.hist) = Budget + 1
    /\ Call.httpCalls = Budget + 1
    /\ Call.error = handleError(Call.hist[Len(Call.hist)])

\* and a started call always ends, the transport and the timers answering
StartedCallEnds ==
  /\ [](ExhaustedAtBudget)
  /\ (Call.pc \in {"inflight", "backoff"}) ~> Finished

-----------------------------------------------------------------------------
(* Claims about the stream decoder *)

Iter == iters[1]
IterDone == Iter.pc = "done"

\* the concatenation of the content fragments of a chunk sequence
RECURSIVE ConcatContent(_)
ConcatContent(out) ==
  IF out = <<>> THEN <<>>
  ELSE (IF Truthy(DeltaContent(Head(out))) THEN DeltaContent(Head(out)).v ELSE <<>>)
       \o ConcatContent(Tail(out))

\* the contents c1, c2, ... that the lines of a script carry, in line order
RECURSIVE ScriptContents(_, _)
ScriptContents(sc, n) ==
  IF n > Len(sc.kinds) THEN <<>>
  ELSE (IF sc.kinds[n] \in {"delta", "message", "bare"} THEN <<ContentAt(n)>> ELSE <<>>)
       \o ScriptContents(sc, n + 1)

RECURSIVE Flatten(_)
Flatten(texts) == IF texts = <<>> THEN <<>> ELSE Head(texts) \o Flatten(Tail(texts))

\* one content chunk per content, then the terminal chunk
ChunksFor(texts) ==
  [k \in 1..Len(texts) |-> ContentChunk(Str(texts[k]))] \o <<FinalChunk>>

IsPrefix(a, b) == Len(a) <= Len(b) /\ SubSeq(b, 1, Len(a)) = a

\* N delta lines with non-empty contents, then data: [DONE]
DeltasThenDone(sc) ==
  /\ Len(sc.kinds) >= 1
  /\ sc.kinds[Len(sc.kinds)] = "done"
  /\ \A n \in 1..(Len(sc.kinds) - 1) : sc.kinds[n] = "delta"

\* the chunks c1..cN and the terminal chunk, as far as they have been delivered
DeltasThenDoneChunks ==
  LET N == Len(script.kinds) - 1
      out == Iter.out
  IN /\ Len(out) <= N + 1
     /\ \A k \in 1..Len(out) :
          IF k <= N
          THEN /\ DeltaContent(out[k]) = Str(ContentAt(k))
               /\ out[k].finish_reason = "null"
               /\ out[k].index = 0
          ELSE out[k] = FinalChunk
     /\ IterDone =>
          /\ Len(out) = N + 1
          /\ ConcatContent(out) = Flatten([k \in 1..N |-> ContentAt(k)])

\* C6: N well-formed delta lines with contents c1..cN, then data: [DONE]: the
\* decoder yields exactly N content chunks carrying c1..cN in arrival order
\* (finish_reason null, index 0) and then one terminal chunk, and the
\* concatenation of the content fragments is c1 + ... + cN.
C6_DeltasThenDone == DeltasThenDone(script) => DeltasThenDoneChunks

\* the same for a source none of whose buffers ends inside a character: this
\* much holds
DeltasThenDoneWholeCharacters ==
  (DeltasThenDone(script) /\ ~source.torn) => DeltasThenDoneChunks

\* the chunks of the lines of a text, in order
RECURSIVE YieldsOf(_)
YieldsOf(lines) ==
  IF lines = <<>> THEN <<>>
  ELSE (IF LineYield(Head(lines)) # Null
        THEN <<ContentChunk(LineYield(Head(lines)))>> ELSE <<>>)
       \o YieldsOf(Tail(lines))

\* what the decoder delivers when the source hands over all its bytes in one
\* buffer: the chunks of the ended lines, of the unended last line, and the
\* terminal chunk
UncutOut(bytes) == YieldsOf(Split(toString(bytes))) \o <<FinalChunk>>

\* C7: however the source cuts its bytes into buffers, the decoder delivers
\* the same content fragments and the same terminal chunk as for the uncut
\* sequence.
C7_AnyCutSameChunks ==
  /\ IsPrefix(Iter.out, UncutOut(WireBytes(script)))
  /\ IterDone => Iter.out = UncutOut(WireBytes(script))

\* the same for the cuts that fall between two characters: this much holds
CutsBetweenCharactersSameChunks == ~source.torn => C7_AnyCutSameChunks

HasBadLine(sc) == \E n \in 1..Len(sc.kinds) : sc.kinds[n] = "bad"

\* a and b are the same chunks, the contents of the content chunks apart
SameShape(a, b) ==
  /\ Len(a) = Len(b)
  /\ \A k \in 1..Len(a) :
       /\ a[k].finish_reason = b[k].finish_reason
       /\ a[k].index = b[k].index
       /\ Truthy(DeltaContent(a[k])) = Truthy(DeltaContent(b[k]))

\* C8: a line that is not parseable JSON yields no chunk and does not end the
\* iteration: the content lines before and after it are each yielded, in
\* order, and then the terminal chunk (with the very contents of the lines
\* when no buffer ends inside a character).
C8_BadLineSkipped ==
  LET expected == ChunksFor(ScriptContents(script, 1))
      out == Iter.out
  IN HasBadLine(script) =>
       /\ Len(out) <= Len(expected)
       /\ SameShape(out, SubSeq(expected, 1, Len(out)))
       /\ ~source.torn => IsPrefix(out, expected)
       /\ IterDone => Len(out) = Len(expected)

C8_Witness ==
  /\ script = Script(<<"delta", "bad", "delta">>, <<"\n">>, FALSE)
  /\ IterDone /\ ~source.torn /\ Len(Iter.out) = 3
  /\ DeltaContent(Iter.out[2]) = Str(ContentAt(3))

\* the chunk sequence of a finished iteration: content chunks (finish_reason
\* null, non-empty content) and then exactly one terminal chunk
WellTerminated(out) ==
  /\ Len(out) >= 1
  /\ out[Len(out)] = FinalChunk
  /\ FinalChunk.delta = {} /\ FinalChunk.finish_reason = "stop" /\ FinalChunk.index = 0
  /\ \A k \in 1..(Len(out) - 1) :
       /\ out[k].finish_reason = "null"
       /\ DeltaContent(out[k]).t = "string" /\ Len(DeltaContent(out[k]).v) > 0

\* C9: for every source that ends without failing (an empty one, one that
\* never sends [DONE]) the iteration eventually completes, and what it
\* delivered ends with exactly one terminal chunk, every chunk before it having
\* finish_reason null and a non-empty delta.content.
C9_EndsWithOneTerminalChunk ==
  /\ [](IterDone => WellTerminated(Iter.out))
  /\ <>IterDone

C9_Witness ==
  /\ script = Script(<<"delta">>, <<"\n">>, FALSE)
  /\ IterDone /\ Len(Iter.out) = 2 /\ Iter.out[2] = FinalChunk

-----------------------------------------------------------------------------
(* Claims about the validation of create *)

Messages == Get(Call.params, "messages")

\* messages that are valid however the content rule is read: every message has
\* a recognized role and a non-empty content, a function_call or tool_calls
SoundMessage(m) ==
  /\ RuleMessage(m)
  /\ Truthy(Get(m, "content")) \/ Truthy(Get(m, "function_call")) \/ Truthy(Get(m, "tool_calls"))

SoundMessages(x) == MessagesUsable(x) /\ \A i \in 1..Len(x.v) : SoundMessage(x.v[i])

BadRole(m) ==
  m.t = "object" /\ ~(Get(m, "role").t = "string" /\ Get(m, "role").v \in Roles)

\* the first message that breaks a rule breaks the rule on role
FirstFaultIsRole(x) ==
  /\ MessagesUsable(x)
  /\ \E i \in 1..Len(x.v) :
       BadRole(x.v[i]) /\ \A j \in 1..(i - 1) : SoundMessage(x.v[j])

\* C11: a create whose messages hold a message with no role, or with a role
\* outside system, user, assistant, function, tool, fails with an
\* InvalidRequestError whose param is "role".
C11_BadRoleInvalidRequest ==
  (Call.op = "create" /\ FirstFaultIsRole(Messages)) =>
    /\ Call.pc = "raised"
    /\ InstanceOf(Call.error, "InvalidRequestError")
    /\ Call.error.param = "role"

\* what holds of such a create: it is rejected before any HTTP attempt
BadRoleRejected ==
  (Call.op = "create" /\ FirstFaultIsRole(Messages)) =>
    (Call.pc = "raised" /\ IsError(Call.error) /\ Call.httpCalls = 0)

NumericKeys == {"max_tokens", "temperature", "top_p"}

\* the number given for k lies outside the range the rules allow
OutOfRange(params, k) ==
  LET x == Get(params, k)
  IN /\ x.t = "number"
     /\ CASE k = "max_tokens" -> x.v <= 0
          [] k = "temperature" -> x.v < 0 \/ x.v > 20
          [] k = "top_p" -> x.v <= 0 \/ x.v > 10

OutOfRangeKeys(params) == {k \in NumericKeys : OutOfRange(params, k)}

\* nothing but the values of max_tokens, temperature and top_p can be wrong
OtherwiseValid(params) ==
  /\ SoundMessages(Get(params, "messages"))
  /\ Present(params, "functions") => RuleList(Get(params, "functions"), RuleFunction)
  /\ Present(params, "tools") => RuleList(Get(params, "tools"), RuleTool)
  /\ \A k \in NumericKeys : Present(params, k) => Get(params, k).t = "number"

\* C12: with valid messages, a max_tokens <= 0 (0 included), a temperature
\* outside [0,2] or a top_p outside (0,1] (0 included) makes create fail with an
\* InvalidRequestError that names such a parameter, and no HTTP attempt is made.
C12_OutOfRangeInvalidRequest ==
  (Call.op = "create" /\ OtherwiseValid(Call.params) /\ OutOfRangeKeys(Call.params) # {}) =>
    /\ Call.pc = "raised"
    /\ InstanceOf(Call.error, "InvalidRequestError")
    /\ Call.error.param \in OutOfRangeKeys(Call.params)
    /\ Call.httpCalls = 0

\* the same for the values other than 0: this much holds
NonZeroOutOfRangeKeys(params) ==
  {k \in OutOfRangeKeys(params) : Get(params, k).v # 0}

OutOfRangeNonZeroInvalidRequest ==
  (Call.op = "create" /\ OtherwiseValid(Call.params)
     /\ NonZeroOutOfRangeKeys(Call.params) # {}) =>
    /\ Call.pc = "raised"
    /\ InstanceOf(Call.error, "InvalidRequestError")
    /\ Call.error.param \in NonZeroOutOfRangeKeys(Call.params)
    /\ Call.httpCalls = 0

\* a list with an entry that breaks the rule for its entries
BadEntry(x, Rule(_)) == IsArray(x) /\ \E i \in 1..Len(x.v) : ~Rule(x.v[i])

HasBadEntry(params) ==
  \/ BadEntry(Get(params, "functions"), RuleFunction)
  \/ BadEntry(Get(params, "tools"), RuleTool)

BadEntryRejected ==
  (Call.op = "create" /\ SoundMessages(Messages) /\ HasBadEntry(Call.params)) =>
    (Call.pc = "raised" /\ IsError(Call.error) /\ Call.httpCalls = 0)

NotAList(params, k) == Present(params, k) /\ ~IsArray(Get(params, k))

\* C14: a create whose functions, or tools, is present and is not an array
\* (a string, a number, false, null, an object) raises an error and makes no
\* HTTP attempt.
C14_NonArrayRejected ==
  (Call.op = "create" /\ SoundMessages(Messages)
     /\ (NotAList(Call.params, "functions") \/ NotAList(Call.params, "tools"))) =>
    (Call.pc = "raised" /\ IsError(Call.error) /\ Call.httpCalls = 0)

\* the same for the truthy values that are not arrays: this much holds
TruthyNotAList(params, k) == NotAList(params, k) /\ Truthy(Get(params, k))

TruthyNonArrayRejected ==
  (Call.op = "create" /\ SoundMessages(Messages)
     /\ (TruthyNotAList(Call.params, "functions") \/ TruthyNotAList(Call.params, "tools"))) =>
    (Call.pc = "raised" /\ IsError(Call.error) /\ Call.httpCalls = 0)

RecognizedRoles(x) ==
  /\ MessagesUsable(x)
  /\ \A i \in 1..Len(x.v) :
       x.v[i].t = "object" /\ Get(x.v[i], "role").t = "string" /\ Get(x.v[i], "role").v \in Roles

\* the message has a content field, or carries function_call or tool_calls
Carries(m) ==
  Present(m, "content") \/ Present(m, "function_call") \/ Present(m, "tool_calls")

\* the error is the one about a message's content
AboutContent(e) ==
  \/ e.param = "content"
  \/ e.msg = "messages[i].content is required when role is not function or tool"

\* C15: messages with recognized roles pass validateMessages exactly when each
\* of them has a content field (whatever its value, "" included) or carries
\* function_call or tool_calls; otherwise create fails with the error about
\* content.
C15_ContentOrCallRequired ==
  (Call.op = "create" /\ RecognizedRoles(Messages)) =>
    IF \A i \in 1..Len(Messages.v) : Carries(Messages.v[i])
    THEN ~IsError(validateMessages(Messages))
    ELSE Call.pc = "raised" /\ AboutContent(Call.error) /\ Call.httpCalls = 0

\* the same with "a content that is not empty" for "a content field": this
\* much holds
ContentOrCallRequiredNonEmpty ==
  (Call.op = "create" /\ RecognizedRoles(Messages)) =>
    IF \A i \in 1..Len(Messages.v) : SoundMessage(Messages.v[i])
    THEN ~IsError(validateMessages(Messages))
    ELSE Call.pc = "raised" /\ AboutContent(Call.error) /\ Call.httpCalls = 0

-----------------------------------------------------------------------------
(* Claims about the error taxonomy *)

Answered == Len(Call.hist) >= 1

\* the reply to the call's latest attempt
LastReply == Call.hist[Len(Call.hist)]

\* the error thrown for the latest attempt: raised to the caller, or caught by
\* request, which waits to try again
Failing == Answered /\ Call.pc \in {"raised", "backoff"}
Thrown == IF Call.pc = "backoff" THEN Call.lastError ELSE Call.error

HttpError(r) == r.k = "response" /\ r.status >= 400

HasBody(r) == r.data.t \notin {"undefined", "null"}

\* C16: whatever the body of an HTTP error response (a missing or empty one
\* included), the error is an AuthenticationError for 401, a RateLimitError for
\* 429, and for every other 4xx/5xx status but 400 and 422 an APIError whose
\* status is the response's.
C16_StatusDecidesKind ==
  (Failing /\ HttpError(LastReply) /\ LastReply.status \notin {400, 422}) =>
    /\ Thrown.kind = ClientErrorKind(LastReply)
    /\ Thrown.status = LastReply.status

\* the same for the responses that have a body (an empty one included): this
\* much holds
StatusDecidesKindGivenBody ==
  (Failing /\ HttpError(LastReply) /\ HasBody(LastReply)
     /\ LastReply.status \notin {400, 422}) =>
    /\ Thrown.kind = ClientErrorKind(LastReply)
    /\ Thrown.status = LastReply.status

\* C17: a response with status 400 or 422 is raised as an InvalidRequestError,
\* the kind local validation raises, not as a plain APIError.
C17_BadRequestIsInvalidRequest ==
  (Failing /\ HttpError(LastReply) /\ HasBody(LastReply)
     /\ LastReply.status \in {400, 422}) =>
    InstanceOf(Thrown, "InvalidRequestError")

\* what such a response is raised as: an APIError with the response's status
BadRequestIsAPIError ==
  (Failing /\ HttpError(LastReply) /\ HasBody(LastReply)
     /\ LastReply.status \in {400, 422}) =>
    (Thrown.kind = "APIError" /\ Thrown.status = LastReply.status)

Unanswered(r) == r.k \in {"noResponse", "setup"}

\* C18: an attempt that was sent and got no response, and an attempt that
\* failed before it was sent, both give a ModelPilotError that is no APIError
\* and has no status.
C18_TransportErrorOneKind ==
  (Failing /\ Unanswered(LastReply)) =>
    /\ Thrown.kind = "ModelPilotError"
    /\ ~InstanceOf(Thrown, "APIError")
    /\ Thrown.status = -1

C18_Witness ==
  /\ Call.pc = "raised" /\ Len(Call.hist) = 2
  /\ Call.hist[1] = NoResponse /\ Call.hist[2] = SetupFailure
  /\ Call.lastError = ModelPilotError("Request error")
  /\ Call.error = ModelPilotError("Request error")

\* C19: every failure of create, request, getRouterConfig and getModels is
\* raised to the caller, and what is raised is an instance of ModelPilotError.
C19_EveryFailureTyped ==
  /\ Call.pc = "raised" => InstanceOf(Call.error, "ModelPilotError")
  /\ (Finished /\ Answered /\ ~Resolves(LastReply)) =>
       (Call.pc = "raised" /\ IsError(Call.error))

\* no failure is swallowed, and the failure of an attempt that got no reply, or
\* a reply with a body, is typed: this much holds
FailureRaisedAndTypedGivenBody ==
  /\ (Call.pc = "raised" /\ Answered /\ (Unanswered(LastReply) \/ HasBody(LastReply))) =>
       InstanceOf(Call.error, "ModelPilotError")
  /\ (Finished /\ Answered /\ ~Resolves(LastReply)) =>
       (Call.pc = "raised" /\ IsError(Call.error))

-----------------------------------------------------------------------------
(* Claims about the wire payload *)

OptionalKeys == {"model"} \cup PassThroughKeys

\* messages and routerId, and every optional field the input has, as given
ExpectedPayload(cl, params) ==
  Obj({<<"messages", Get(params, "messages")>>, <<"routerId", cl.routerId>>}
      \cup {<<k, Get(params, k)>> : k \in {x \in OptionalKeys : Present(params, x)}})

Sent == Call.op = "create" /\ Call.httpCalls >= 1

\* C20: for valid params the payload sent holds messages, routerId and exactly
\* the optional fields present on the input, each with the input's value.
C20_PayloadExactlyPresentFields ==
  (Sent /\ ObeysRules(Call.params)) =>
    Call.req.data = ExpectedPayload(client.self, Call.params)

\* the same for the inputs whose model is absent or not empty: this much holds
PayloadExactlyPresentFieldsGivenModel ==
  (Sent /\ ObeysRules(Call.params)
     /\ (Present(Call.params, "model") => Truthy(Get(Call.params, "model")))) =>
    Call.req.data = ExpectedPayload(client.self, Call.params)

-----------------------------------------------------------------------------
(* Claims about the router identifier, the API key and the headers *)

RouterIdKeys(payload) == {q \in payload.v : q[1] = "routerId"}

\* C21: every chat payload holds one routerId, the client's, which is "default"
\* when none was configured; a routerId among the create params does not
\* replace it; and the request path ends with the same identifier.
C21_RouterIdIsTheClients ==
  /\ client.ok /\ ~Present(client.self.config, "routerId") =>
       client.self.routerId = Str("default")
  /\ Sent =>
       /\ RouterIdKeys(Call.req.data) = {<<"routerId", client.self.routerId>>}
       /\ Call.req.url = <<"/router/", client.self.routerId>>

C21_Witness ==
  /\ Sent /\ Get(Call.params, "routerId") = Str("mine")
  /\ ~Present(client.self.config, "routerId")
  /\ Get(Call.req.data, "routerId") = Str("default")
  /\ Call.req.url = <<"/router/", Str("default")>>

ConfiguredKey == Get(client.self.config, "apiKey")

\* the configured key is a string that starts with mp_
KeyAccepted ==
  ConfiguredKey.t = "string" /\ StartsWith(ConfiguredKey.v, RequiredPrefix)

Attempted == Call.httpCalls >= 1

\* C23: every HTTP attempt carries Authorization: Bearer <apiKey>, whatever
\* the configured defaultHeaders and the headers passed with the request.
C23_BearerOnEveryAttempt ==
  Attempted => Get(Call.req.headers, "Authorization") = Bearer(client.self.apiKey)

\* the same when neither the defaultHeaders nor the headers of the request
\* hold an Authorization of their own: this much holds
NoAuthorizationGiven ==
  /\ ~HasKey(client.self.defaultHeaders, "Authorization")
  /\ \E h \in {Undef, TraceHeader, StreamingHeaders} :
       Call.req.headers = SentHeaders(client.self, h)

BearerUnlessReplaced ==
  (Attempted /\ NoAuthorizationGiven) =>
    Get(Call.req.headers, "Authorization") = Bearer(client.self.apiKey)

Streaming == Call.op = "create" /\ Truthy(Get(Call.params, "stream"))

\* C24: a streaming create whose attempts so far all failed with a retryable
\* kind, and were no more than maxRetries, is waiting to retry or retrying, as
\* a call through request is; the error is not yet raised.
C24_StreamingCreateRetried ==
  (Streaming /\ Answered /\ AllTransient(Call.hist) /\ Len(Call.hist) <= Budget) =>
    Call.pc \in {"backoff", "inflight"}

\* the same for a create without stream: this much holds
PlainCreateRetried ==
  (Call.op = "create" /\ ~Streaming /\ Answered /\ AllTransient(Call.hist)
     /\ Len(Call.hist) <= Budget) =>
    Call.pc \in {"backoff", "inflight"}

-----------------------------------------------------------------------------
(* Claims about the life cycle of a ChatCompletionStream *)

\* the consumer has called return() on an iteration it had started
Abandoned ==
  \/ Iter.pc = "awaitReturning"
  \/ Iter.pc = "returned" /\ Iter.out # <<>>

\* the iterator of the source is closed, or the source has ended
Released == source.state = "closed" \/ source.rest = <<>>

\* C25: once the consumer has left an iteration before its terminal chunk,
\* no buffer is pulled from the source beyond the one already asked for, and
\* when the generator has returned the source is released.
C25_AbandonReleasesSource ==
  Abandoned =>
    /\ source.late <= 1
    /\ Iter.pc = "returned" => Released

\* the same for a consumer that leaves between two chunks (break or throw in
\* the body of its for await loop): the source is closed at once and hands out
\* no buffer afterwards.  This much holds.
LeavingTheLoopReleasesSource ==
  /\ [](Iter.pc = "returned" => ~CanDeliver(1))
  /\ [][/\ (iters[1].pc = "yielded" /\ iters'[1].pc = "returned") =>
             (source'.state = "closed" /\ source'.late = 0)
        /\ (iters[1].pc = "tailYielded" /\ iters'[1].pc = "returned") =>
             source.rest = <<>>
        /\ iters[1].pc = "returned" => source' = source]_vars

\* C26: a failure of the source during the iteration is raised to the consumer
\* at the pull where it occurs, as an error of the library's taxonomy.
C26_SourceFailureTyped ==
  /\ source.state = "failed" <=> Iter.pc = "failed"
  /\ Iter.pc = "failed" => InstanceOf(Iter.error, "ModelPilotError")

\* it is raised at the pull where it occurs, as the source threw it: this much
\* holds
SourceFailureRaisedAtPull ==
  /\ source.state = "failed" <=> Iter.pc = "failed"
  /\ Iter.pc = "failed" => Iter.error = SourceError

Again == iters[2]

\* C27: iterating a drained stream once more delivers no content fragment,
\* the one of an unended last line included.
C27_NoFragmentTwice ==
  \A k \in 1..Len(Again.out) : DeltaContent(Again.out[k]) = Undef

\* the same for sources whose last line is ended by a newline: this much holds
NoFragmentTwiceWhenEnded ==
  script.closed => \A k \in 1..Len(Again.out) : DeltaContent(Again.out[k]) = Undef

\* the contents of the chunks that have one, concatenated in order
ContentsOf(chunks) ==
  Flatten([k \in 1..Len(chunks) |->
             IF DeltaContent(chunks[k]) # Undef THEN DeltaContent(chunks[k]).v ELSE <<>>])

\* C28: over the same run of the source, getText returns the concatenation, in
\* order, of the delta.content of the chunks toArray returns; and both return
\* when the iteration is done, the source exhausted and the terminal chunk
\* produced.
C28_TextIsConcatenationOfArray ==
  IterDone =>
    /\ getText(Iter.out) = ContentsOf(toArray(Iter.out))
    /\ source.rest = <<>>
    /\ Len(toArray(Iter.out)) >= 1
    /\ toArray(Iter.out)[Len(Iter.out)] = FinalChunk

C28_Witness ==
  /\ IterDone /\ ~source.torn /\ Len(toArray(Iter.out)) = 3
  /\ getText(Iter.out) = ContentAt(1) \o ContentAt(2)

-----------------------------------------------------------------------------
(* Claims about concurrent calls and the order of attempts *)

\* the call as create or request leaves it on entry, from its own arguments
Entered(cl, call) ==
  IF call.op = "create" THEN CreateCall(cl, IdleCall, call.params)
  ELSE EnterRequest(cl, IdleCall, call.op, call.params, call.req)

\* the call run alone against the replies h
RECURSIVE ReplayFrom(_, _, _)
ReplayFrom(cl, st, h) ==
  IF h = <<>> THEN st
  ELSE ReplayFrom(cl,
                  Settle(cl, IF st.pc = "backoff" THEN AfterBackoff(cl, st) ELSE st, Head(h)),
                  Tail(h))

OwnOutcome(cl, call) == ReplayFrom(cl, Entered(cl, call), call.hist)

\* the call is where it would be had it run alone against its own replies
DependsOnOwnAttempts(c) ==
  calls[c].pc # "idle" =>
    \/ calls[c] = OwnOutcome(client, calls[c])
    \/ /\ OwnOutcome(client, calls[c]).pc = "backoff"
       /\ calls[c] = AfterBackoff(client, OwnOutcome(client, calls[c]))

\* the client is as the constructor left it
ConfigurationKept == client = NewClient(client.self.config)

\* a call that waits or is in flight can go on whatever the other call does
NotBlocked(c) ==
  /\ calls[c].pc = "backoff" => ENABLED BackoffElapsed(c)
  /\ calls[c].pc = "inflight" => ENABLED HttpRespond(c, FewResponses)

\* C29: with two calls running at once on one client, each call makes at most
\* maxRetries + 1 attempts (maxRetries as configured, 3 when not), its state is
\* the one its own replies lead to, no call blocks the other, and the client's
\* configuration stays as constructed.
C29_ConcurrentCallsIndependent ==
  /\ ConfigurationKept
  /\ \A c \in CallIds :
       /\ Tenths(calls[c].httpCalls - 1) <= ConfiguredLimit
       /\ DependsOnOwnAttempts(c)
       /\ NotBlocked(c)

\* the same with the limit the client holds (this.maxRetries) in place of the
\* configured one: this much holds
ConcurrentCallsIndependentAtBudget ==
  /\ ConfigurationKept
  /\ \A c \in CallIds :
       /\ calls[c].httpCalls <= Budget + 1
       /\ DependsOnOwnAttempts(c)
       /\ NotBlocked(c)

\* attempts issued and not yet answered
InFlight(call) == call.httpCalls - Len(call.hist)

\* C30: a call has at most one HTTP attempt in flight; an attempt after the
\* first is issued only from the backoff wait that follows a failed attempt,
\* one attempt at a time.
C30_OneAttemptInFlight ==
  /\ [](/\ InFlight(Call) \in {0, 1}
        /\ InFlight(Call) = 1 <=> Call.pc = "inflight")
  /\ [][(calls'[1].httpCalls > Call.httpCalls /\ Call.httpCalls >= 1) =>
          /\ Call.pc = "backoff"
          /\ ~Resolves(LastReply)
          /\ Len(Call.waits) = Call.httpCalls
          /\ Len(Call.hist) = Call.httpCalls
          /\ calls'[1].httpCalls = Call.httpCalls + 1]_vars

C30_Witness ==
  /\ Call.pc = "inflight" /\ Call.httpCalls = 3 /\ Len(Call.hist) = 2
  /\ Call.waits = <<1000, 2000>>

-----------------------------------------------------------------------------
(* Claims about the retry schedule *)

\* the wait before the n-th retry, in ms
ScheduledWait(n) == IF 1000 * 2^(n - 1) <= 10000 THEN 1000 * 2^(n - 1) ELSE 10000

FinalFailure(r) == ~Resolves(r) /\ ~Transient(r)

\* C32: request makes a further attempt only after a transient failure (HTTP
\* status >= 500, or no response at all); after every other failure, that of a
\* request that was never sent included, the error is raised with no further
\* attempt.
C32_RetryOnlyTransient ==
  Call.via = "request" =>
    \A j \in 1..Len(Call.hist) :
      FinalFailure(Call.hist[j]) =>
        (j = Len(Call.hist) /\ Call.pc = "raised" /\ Call.httpCalls = j)

\* the same for the failures that are HTTP responses with a body: this much
\* holds
RetryOnlyTransientGivenBody ==
  Call.via = "request" =>
    \A j \in 1..Len(Call.hist) :
      (FinalFailure(Call.hist[j]) /\ Call.hist[j].k = "response" /\ HasBody(Call.hist[j])) =>
        (j = Len(Call.hist) /\ Call.pc = "raised" /\ Call.httpCalls = j)

-----------------------------------------------------------------------------
(* Claims about the order of the validation *)

FieldOrder == <<"messages", "functions", "tools", "max_tokens", "temperature", "top_p">>

\* the value given for the field breaks the rule of section 4.1 on that field
Breaks(params, k) ==
  CASE k = "messages" -> ~RuleMessages(Get(params, "messages"))
    [] k = "functions" ->
         Present(params, k) /\ ~RuleList(Get(params, k), RuleFunction)
    [] k = "tools" ->
         Present(params, k) /\ ~RuleList(Get(params, k), RuleTool)
    [] k = "max_tokens" ->
         Present(params, k) /\ ~(Get(params, k).t = "number" /\ Get(params, k).v > 0)
    [] k = "temperature" ->
         Present(params, k)
         /\ ~(Get(params, k).t = "number" /\ Get(params, k).v >= 0 /\ Get(params, k).v <= 20)
    [] k = "top_p" ->
         Present(params, k)
         /\ ~(Get(params, k).t = "number" /\ Get(params, k).v > 0 /\ Get(params, k).v <= 10)

BrokenAt(params) == {n \in 1..Len(FieldOrder) : Breaks(params, FieldOrder[n])}

\* the first field, in the order of the checks, whose rule is broken
FirstBroken(params) ==
  FieldOrder[CHOOSE n \in BrokenAt(params) : \A m \in BrokenAt(params) : n <= m]

MessagesTexts ==
  {"messages is required", "messages must be an array", "messages array cannot be empty",
   "messages[i] must be an object", "messages[i].role is required",
   "messages[i].role must be one of: system, user, assistant, function, tool",
   "messages[i].content is required when role is not function or tool"}

FunctionsTexts ==
  {"functions must be an array", "functions[i] must be an object",
   "functions[i].name is required and must be a string",
   "functions[i].description must be a string",
   "functions[i].parameters must be an object"}

\* a tool's function is checked by validateFunctions and reported in its words
ToolsTexts ==
  {"tools must be an array", "tools[i] must be an object", "tools[i].type is required",
   "tools[i].function is required when type is 'function'"}
  \cup (FunctionsTexts \ {"functions must be an array"})

\* the error is the one the validation of field k raises
Reports(e, k) ==
  CASE k = "messages" -> e.msg \in MessagesTexts
    [] k = "functions" -> e.msg \in FunctionsTexts
    [] k = "tools" -> e.msg \in ToolsTexts
    [] OTHER -> e.kind = "InvalidRequestError" /\ e.param = k

\* C33: a create that breaks the rule on messages and a rule on another field
\* raises the error about messages; among the other fields the error is about
\* the first broken one in the order functions, tools, max_tokens, temperature,
\* top_p; and the call raises that one error.
C33_FirstViolationReported ==
  (Call.op = "create" /\ Cardinality(BrokenAt(Call.params)) >= 2) =>
    /\ Call.pc = "raised"
    /\ Reports(Call.error, FirstBroken(Call.params))

\* no broken field holds a falsy value (0, "", null, false), and no message an
\* empty content
NothingFalsy(params) ==
  /\ RuleMessages(Get(params, "messages")) => SoundMessages(Get(params, "messages"))
  /\ \A n \in BrokenAt(params) :
       FieldOrder[n] # "messages" => Truthy(Get(params, FieldOrder[n]))

\* the same for such params: this much holds
FirstViolationReportedUnlessFalsy ==
  (Call.op = "create" /\ Cardinality(BrokenAt(Call.params)) >= 2
     /\ NothingFalsy(Call.params)) =>
    /\ Call.pc = "raised"
    /\ Reports(Call.error, FirstBroken(Call.params))

\* two fields broken, neither of them falsy: the first is reported
TwoBrokenFirstReported ==
  /\ Call.op = "create" /\ NothingFalsy(Call.params)
  /\ BrokenAt(Call.params) = {2, 4}
  /\ Call.pc = "raised" /\ Call.error.msg \in FunctionsTexts

-----------------------------------------------------------------------------
(* Claims about what one line yields *)

\* the shapes of line that carry a content: in choices[0].delta.content, or,
\* that one missing, in choices[0].message.content
Carrying == {"delta", "message", "bare", "both", "fallback"}

\* the contents the lines of a script carry, in line order
RECURSIVE Fragments(_, _)
Fragments(sc, n) ==
  IF n > Len(sc.kinds) THEN <<>>
  ELSE (IF sc.kinds[n] \in Carrying THEN <<ContentAt(n)>> ELSE <<>>) \o Fragments(sc, n + 1)

\* C34: a line that is empty once its data: prefix is stripped, or is [DONE],
\* yields nothing; any other line yields choices[0].delta.content when it has
\* one, else choices[0].message.content when it has one, else nothing; so that
\* each line yields at most one chunk.
C34_LineYieldsItsContent ==
  LET expected == ChunksFor(Fragments(script, 1))
      out == Iter.out
  IN /\ Len(out) <= Len(script.kinds) + 1
     /\ SameShape(out, SubSeq(expected, 1, Len(out)))
     /\ ~source.torn => IsPrefix(out, expected)
     /\ IterDone => Len(out) = Len(expected)

C34_Witness ==
  /\ script = Script(<<"both", "blank", "fallback">>, <<"\n">>, TRUE)
  /\ IterDone /\ ~source.torn
  /\ Iter.out = <<ContentChunk(Str(ContentAt(1))), ContentChunk(Str(ContentAt(3))), FinalChunk>>

-----------------------------------------------------------------------------
(* Claims about the two modes of create *)

EventStream == Str("text/event-stream")

-----------------------------------------------------------------------------
(* Claims about the line buffer *)

\* the text of lines, each ended by its newline
RECURSIVE Ended(_)
Ended(lines) ==
  IF lines = <<>> THEN <<>> ELSE Head(lines) \o <<"\n">> \o Ended(Tail(lines))

\* the text after the last newline of a text (the whole text when it has none)
AfterLastNewline(text) ==
  LET nl == {k \in 1..Len(text) : text[k] = "\n"}
  IN IF nl = {} THEN text
     ELSE SubSeq(text, (CHOOSE k \in nl : \A j \in nl : j <= k) + 1, Len(text))

\* C36: whenever the decoder waits for the next buffer, _buffer holds no
\* newline and is the text received so far after its last newline, every line
\* given to the loop has been gone through, and those lines, each with its
\* newline, followed by _buffer are the text received: no character is lost
\* or doubled.
C36_BufferIsTheOpenLine ==
  Iter.pc = "await" =>
    /\ \A k \in 1..Len(_buffer) : _buffer[k] # "\n"
    /\ _buffer = AfterLastNewline(source.text)
    /\ Iter.lines = <<>>
    /\ Ended(source.lines) \o _buffer = source.text

C36_Witness ==
  /\ Iter.pc = "await" /\ Len(source.lines) = 2 /\ source.lines[2] = <<>>
  /\ Len(_buffer) = 3 /\ source.rest # <<>>

-----------------------------------------------------------------------------
(* Claims about the [DONE] line *)

\* a data line with a content comes after a [DONE] line
DataAfterDone(sc) ==
  \E n, m \in 1..Len(sc.kinds) : n < m /\ sc.kinds[n] = "done" /\ sc.kinds[m] = "delta"

Terminal(out) == {k \in 1..Len(out) : out[k] = FinalChunk}

\* C37: [DONE] does not end the decoding: the data lines after it are yielded
\* as content chunks, in order, before the terminal chunk, and the terminal
\* chunk comes only when the source is exhausted.
C37_DoneDoesNotEndDecoding ==
  /\ Terminal(Iter.out) # {} => (source.rest = <<>> /\ Terminal(Iter.out) = {Len(Iter.out)})
  /\ (DataAfterDone(script) /\ IterDone) =>
       /\ SameShape(Iter.out, ChunksFor(ScriptContents(script, 1)))
       /\ ~source.torn => Iter.out = ChunksFor(ScriptContents(script, 1))

C37_Witness ==
  /\ script = Script(<<"done", "delta">>, <<"\n">>, TRUE) /\ IterDone /\ ~source.torn
  /\ Iter.out = <<ContentChunk(Str(ContentAt(2))), FinalChunk>>

-----------------------------------------------------------------------------
(* Claims about two iterations of one stream *)

\* what the two iterations delivered, those of the first and then those of the
\* second
BothOut == iters[1].out \o iters[2].out

\* the chunks delivered that carry the content of line n
Carriers(n) == {k \in 1..Len(BothOut) : DeltaContent(BothOut[k]) = Str(ContentAt(n))}

ContentLines(sc) == {n \in 1..Len(sc.kinds) : sc.kinds[n] \in {"delta", "message", "bare"}}

BothDone == \A i \in Consumers : iters[i].pc = "done"

\* each content of the source is delivered once in all, to one of the two
\* iterations, and what is delivered is the content of one line
OnceInAll ==
  /\ \A n \in ContentLines(script) :
       /\ Cardinality(Carriers(n)) <= 1
       /\ BothDone => Cardinality(Carriers(n)) = 1
  /\ \A k \in 1..Len(BothOut) :
       DeltaContent(BothOut[k]) # Undef =>
         \E n \in ContentLines(script) : DeltaContent(BothOut[k]) = Str(ContentAt(n))

\* C38: with two iterations of one ChatCompletionStream in progress at once,
\* in every interleaving each content fragment of the source is delivered
\* exactly once in all, that of a last line without a newline included, and no
\* fragment is made of the text of different lines (buffers cut between
\* characters).
C38_SharedStreamEachFragmentOnce == ~source.torn => OnceInAll

\* the same for the sources whose last line is ended by a newline: this much
\* holds
SharedStreamOnceWhenEnded == (~source.torn /\ script.closed) => OnceInAll

-----------------------------------------------------------------------------
(* Claims about a source that fails *)

\* C39: when the source fails, the chunks of all the lines completed by the
\* buffers received before have been delivered, in order, and nothing else
\* has: not the chunk of the line still open in _buffer, and no terminal chunk.
C39_FailureKeepsWhatWasDelivered ==
  Iter.pc = "failed" =>
    /\ Iter.out = YieldsOf(source.lines)
    /\ Terminal(Iter.out) = {}
    /\ Iter.lines = <<>>

C39_Witness ==
  /\ Iter.pc = "failed" /\ Len(Iter.out) = 1 /\ LineYield(_buffer) # Null
  /\ source.rest = <<>>

====
